---- MODULE Spec2Model ----
(***************************************************************************)
(* Model of the intel_crashlog decode pipeline: the Node register tree and *)
(* its merge, the bit-field reader and the CSV decode-definition           *)
(* interpreter of Record, and the BERT/BERR <-> CrashLog conversion.       *)
(*                                                                         *)
(* Text is a sequence of one-character strings (<<"f","o","o">> is "foo"), *)
(* bytes are naturals 0..255, a u64 is the set of its set bit positions.   *)
(***************************************************************************)
EXTENDS Integers, Sequences, FiniteSets, TLC

VARIABLES
    data,       \* Record::data of the record being decoded
    hdr,        \* Record::header of the record being decoded
    boff,       \* read_field: bit offset of the last call
    bsize,      \* read_field: bit width of the last call
    bres,       \* read_field: result of the last call
    layout,     \* decode_with_csv: text of the decode definition
    coff,       \* decode_with_csv: byte offset of the section decoded
    dec,        \* decode_with_csv: result of the last call
    steps,      \* decode_with_csv: tree and current path after each row
    nlines,     \* number of rows appended to the decode definition
    blob,       \* CrashLog::from_slice: the bytes given
    crashlog,   \* CrashLog::from_slice: result of the call on blob
    bytes,      \* CrashLog::to_bytes: the bytes exported from crashlog
    reparsed,   \* CrashLog::from_slice: result of the call on bytes
    hslice,     \* Header::from_slice: the bytes given
    hres,       \* Header::from_slice: result of the call on hslice
    hsize,      \* Header::header_size of the header parsed
    rsize,      \* Header::record_size of the header parsed
    rbytes,     \* Region::from_slice: the bytes given
    rres,       \* Region::from_slice: result of the call on rbytes
    rcut,       \* Region::from_slice: result on rbytes without its last dword
    rec,        \* Record::checksum: the record
    rec0,       \* the record as it was before one of its bytes changed
    sum,        \* Record::checksum: result of the call on rec
    sum0,       \* Record::checksum: result of the call on rec0
    manager,    \* CollateralManager: the tree, the items fetched, target_info
    creq,       \* get_item_with_pvss: the index asked for
    cres,       \* get_item_with_pvss: result of the call
    queries,    \* get_item_with_pvss: the security levels the tree was asked at
    drec,       \* Record::decode: the record
    dres,       \* Record::decode: result of the call
    wbytes,     \* Region::from_slice under way: the bytes given
    wcursor,    \* Region::from_slice under way: cursor
    wrecords,   \* Region::from_slice under way: region.records
    wqueue,     \* CrashLog::from_regions under way: queue
    wregions,   \* CrashLog::from_regions under way: regions
    wregion,    \* CrashLog::from_regions under way: the region popped
    wrecord,    \* CrashLog::from_regions under way: index of the record of the for loop
    rback,      \* Region::to_bytes: the bytes of the region parsed
    rre,        \* Region::from_slice: result for these bytes
    pidx,       \* Record::payload: index of the record it was taken of
    pres,       \* Record::payload: the payload, or the panic
    self,       \* Node: receiver of merge
    other,      \* Node: tree under construction, argument of the next merge
    pre,        \* Node: self before the last merge
    arg,        \* Node: argument of the last merge
    log,        \* collisions resolved by the last merge
    hist,       \* arguments of all merges so far
    nops,       \* number of construction steps taken so far
    op          \* name of the last operation

vars == <<data, hdr, boff, bsize, bres, layout, coff, dec, steps, nlines, blob, crashlog, bytes, reparsed,
          hslice, hres, hsize, rsize, rbytes, rres, rcut, rec, rec0, sum, sum0,
          manager, creq, cres, queries, drec, dres,
          wbytes, wcursor, wrecords, wqueue, wregions, wregion, wrecord,
          rback, rre, pidx, pres,
          self, other, pre, arg, log, hist, nops, op>>

\* the variables of the Node operations, of read_field, of decode_with_csv
\* and of the CrashLog container
nodeVars == <<self, other, pre, arg, log, hist, nops>>
bitVars == <<boff, bsize, bres>>
csvVars == <<layout, coff, dec, steps, nlines>>
clVars == <<blob, crashlog, bytes, reparsed>>
parseVars == <<hslice, hres, hsize, rsize, rbytes, rres, rcut, rec, rec0, sum, sum0>>
cmVars == <<manager, creq, cres, queries, drec, dres>>
workVars == <<wbytes, wcursor, wrecords, wqueue, wregions, wregion, wrecord>>
backVars == <<rback, rre, pidx, pres>>

(***************************************************************************)
(* Text                                                                    *)
(***************************************************************************)

\* The characters used by the model, in ASCII order (String's Ord is bytewise).
Alphabet ==
    << "\n", "+", ".", "0", "1", "2", "3", "4", "5", "6", "7", "8", "9", ";", "=",
       "F", "_", "a", "b", "c", "d", "e", "f", "g", "h", "i", "j", "k", "l", "m",
       "n", "o", "p", "q", "r", "s", "t", "u", "v", "w", "x", "y", "z" >>

Rank(c) == CHOOSE i \in 1..Len(Alphabet) : Alphabet[i] = c

Digits == << "0", "1", "2", "3", "4", "5", "6", "7", "8", "9" >>

IsDigit(c) == \E i \in 1..10 : Digits[i] = c

DigitVal(c) == (CHOOSE i \in 1..10 : Digits[i] = c) - 1

Min(a, b) == IF a < b THEN a ELSE b

\* a < b for String
RECURSIVE StrLess(_, _)
StrLess(a, b) ==
    IF b = <<>> THEN FALSE
    ELSE IF a = <<>> THEN TRUE
    ELSE IF a[1] = b[1] THEN StrLess(Tail(a), Tail(b))
    ELSE Rank(a[1]) < Rank(b[1])

\* The elements of a finite set of strings in ascending order.
RECURSIVE SortedKeys(_)
SortedKeys(S) ==
    IF S = {} THEN <<>>
    ELSE LET m == CHOOSE x \in S : \A y \in S \ {x} : StrLess(x, y)
         IN  <<m>> \o SortedKeys(S \ {m})

\* format!("{}", n) for an unsigned integer
RECURSIVE FormatNat(_)
FormatNat(n) ==
    IF n < 10 THEN <<Digits[n + 1]>>
    ELSE FormatNat(n \div 10) \o <<Digits[(n % 10) + 1]>>

ToLowercaseChar(c) == IF c = "F" THEN "f" ELSE c

ToLowercase(s) == [i \in 1..Len(s) |-> ToLowercaseChar(s[i])]

\* str::split: the pieces of s between the occurrences of sep, in order
Split(s, sep) ==
    LET at == {i \in 1..Len(s) : s[i] = sep}
        n == Cardinality(at)
        pos(k) == CHOOSE i \in at : Cardinality({j \in at : j < i}) = k - 1
    IN  [k \in 1..(n + 1) |->
            SubSeq(s, IF k = 1 THEN 1 ELSE pos(k - 1) + 1,
                      IF k = n + 1 THEN Len(s) ELSE pos(k) - 1)]

(***************************************************************************)
(* u64 values                                                              *)
(***************************************************************************)

RECURSIVE Pow2(_)
Pow2(n) == IF n = 0 THEN 1 ELSE 2 * Pow2(n - 1)

\* bit i of a natural below 2^31
BitOf(n, i) == (n \div Pow2(i)) % 2

\* the u64 holding a natural below 2^31
U64(n) == {i \in 0..30 : BitOf(n, i) = 1}

(***************************************************************************)
(* Node tree (node.rs)                                                     *)
(***************************************************************************)

KRoot == [tag |-> "Root"]
KSection == [tag |-> "Section"]
KRecord == [tag |-> "Record"]
KField(v) == [tag |-> "Field", value |-> v]

NoChildren == <<>>

MkNode(name, kind) ==
    [name |-> name, description |-> <<>>, kind |-> kind, children |-> NoChildren]

NodeRoot == MkNode(<<>>, KRoot)
NodeSection(name) == MkNode(ToLowercase(name), KSection)
NodeRecord(name) == MkNode(ToLowercase(name), KRecord)
NodeField(name, value) == MkNode(ToLowercase(name), KField(value))

Has(node, name) == name \in DOMAIN node.children

\* BTreeMap::insert(node.name, node): the entry of that key is replaced
NodeAdd(node, child) ==
    [node EXCEPT !.children =
        [k \in (DOMAIN node.children) \cup {child.name} |->
            IF k = child.name THEN child ELSE node.children[k]]]

\* The name merge_instance gives the incoming node: the loop tries the
\* name itself, then name0, name1, ...
RECURSIVE InstanceLoop(_, _, _, _)
InstanceLoop(node, name, cur, instance) ==
    IF Has(node, cur)
    THEN InstanceLoop(node, name, name \o FormatNat(instance), instance + 1)
    ELSE cur

InstanceNameFromOne(node, name) == InstanceLoop(node, name, name, 1)

InstanceName(node, name) == InstanceLoop(node, name, name, 0)

MergeInstanceOverwrite(node, child) == NodeAdd(node, child)

MergeInstanceDrop(node, child) == node

MergeInstance(node, child) ==
    NodeAdd(node, [child EXCEPT !.name = InstanceName(node, child.name)])

SplitsAlways(kind) == TRUE

\* the kinds of an existing child that make merge split the incoming node off
SplitsInstance(kind) == kind.tag \in {"Record", "Field"}

\* merge returns the merged node and what it did with every child of the
\* argument that met a same-named child: "split" (merge_instance) or
\* "absorb" (recursive merge), with the path of the receiving node, the
\* incoming name and kind and the names the receiving node held then.
RECURSIVE MergeFrom(_, _, _, _, _)
Merge(node, o, path) ==
    MergeFrom(node, o, SortedKeys(DOMAIN o.children), path, <<>>)

MergeFrom(node, o, keys, path, events) ==
    IF keys = <<>> THEN [node |-> node, events |-> events]
    ELSE
        LET child == o.children[keys[1]]
            rest == Tail(keys)
            ev(how) == [how |-> how, at |-> path, name |-> child.name,
                        kind |-> child.kind, taken |-> DOMAIN node.children]
        IN  IF Has(node, child.name)
            THEN LET selfChild == node.children[child.name]
                 IN  IF SplitsInstance(selfChild.kind)
                     THEN MergeFrom(MergeInstance(node, child), o, rest, path,
                                    Append(events, ev("split")))
                     ELSE LET sub == Merge(selfChild, child, Append(path, child.name))
                              n2 == [node EXCEPT !.children[child.name] = sub.node]
                          IN  MergeFrom(n2, o, rest, path,
                                        Append(events, ev("absorb")) \o sub.events)
            ELSE MergeFrom(NodeAdd(node, child), o, rest, path, events)

\* create_hierarchy over the split path: missing nodes become Sections
RECURSIVE CreateHierarchySegs(_, _)
CreateHierarchySegs(node, segs) ==
    IF segs = <<>> THEN node
    ELSE LET name == segs[1]
             n1 == IF Has(node, name) THEN node ELSE NodeAdd(node, NodeSection(name))
         IN  [n1 EXCEPT !.children[name] =
                 CreateHierarchySegs(n1.children[name], Tail(segs))]

CreateHierarchy(node, path) == CreateHierarchySegs(node, Split(path, "."))

\* Option::None of get and get_by_path
NoNode == [kind |-> [tag |-> "None"]]

IsSome(node) == node.kind.tag # "None"

\* get_by_path over the split path
RECURSIVE GetBySegs(_, _)
GetBySegs(node, segs) ==
    IF segs = <<>> THEN node
    ELSE IF Has(node, segs[1]) THEN GetBySegs(node.children[segs[1]], Tail(segs))
    ELSE NoNode

GetByPath(node, path) == GetBySegs(node, Split(path, "."))

(***************************************************************************)
(* Building and merging trees                                              *)
(***************************************************************************)

\* Total number of construction steps (add, create_hierarchy) in a run.
MaxOps == 4

Foo == <<"f", "o", "o">>
FooUpper == <<"F", "o", "o">>
Foo0 == <<"f", "o", "o", "0">>
FooBaz == <<"f", "o", "o", ".", "b", "a", "z">>
FooBarBaz == <<"f", "o", "o", ".", "b", "a", "r", ".", "b", "a", "z">>

FieldNames == {FooUpper, Foo0}
RecordNames == {Foo}
Paths == {FooBaz, FooBarBaz}

\* node.kind = NodeType::Field { value } on the node create_hierarchy returns
RECURSIVE SetKindSegs(_, _, _)
SetKindSegs(node, segs, kind) ==
    IF segs = <<>> THEN [node EXCEPT !.kind = kind]
    ELSE [node EXCEPT !.children[segs[1]] = SetKindSegs(@, Tail(segs), kind)]

\* the variables of the CrashLog container, unused
\* nothing has been parsed or summed
NotCalled == [ok |-> FALSE, err |-> "not called"]

\* Record::default(), as far as checksum reads it
NoRecord == [header |-> [version |-> [cldic |-> FALSE]], data |-> <<>>]

\* no collateral manager, nothing asked of it
IdleCollateral ==
    /\ manager = [tree |-> <<>>, items |-> <<>>, target_info |-> <<>>]
    /\ creq = <<>>
    /\ cres = NotCalled
    /\ queries = <<>>
    /\ drec = NoRecord
    /\ dres = NotCalled

\* no parse under way
IdleWork ==
    /\ wbytes = <<>>
    /\ wcursor = 0
    /\ wrecords = <<>>
    /\ wqueue = <<>>
    /\ wregions = <<>>
    /\ wregion = [records |-> <<>>]
    /\ wrecord = 0

\* nothing was written back, parsed again or taken the payload of
IdleBack ==
    /\ rback = <<>>
    /\ rre = NotCalled
    /\ pidx = 0
    /\ pres = NotCalled

IdleParse ==
    /\ hslice = <<>>
    /\ hres = NotCalled
    /\ hsize = 0
    /\ rsize = 0
    /\ rbytes = <<>>
    /\ rres = NotCalled
    /\ rcut = NotCalled
    /\ rec = NoRecord
    /\ rec0 = NoRecord
    /\ sum = NotCalled
    /\ sum0 = NotCalled

IdleCrashLog ==
    /\ IdleParse
    /\ blob = <<>>
    /\ crashlog = [ok |-> FALSE, err |-> "not parsed"]
    /\ bytes = <<>>
    /\ reparsed = [ok |-> FALSE, err |-> "not parsed"]

\* the variables the tree operations do not use
IdleDecode ==
    /\ IdleCrashLog
    /\ data = <<>>
    /\ hdr = [tag |-> "none"]
    /\ boff = 0
    /\ bsize = 0
    /\ bres = [some |-> FALSE]
    /\ layout = <<>>
    /\ coff = 0
    /\ dec = [ok |-> FALSE, err |-> "not decoded"]
    /\ steps = <<>>
    /\ nlines = 0

InitMerge ==
    /\ IdleDecode
    /\ IdleBack
    /\ IdleWork
    /\ IdleCollateral
    /\ self = NodeRoot
    /\ other = NodeRoot
    /\ pre = NodeRoot
    /\ arg = NodeRoot
    /\ log = <<>>
    /\ hist = <<>>
    /\ nops = 0
    /\ op = "init"

Built(o, name) ==
    /\ nops < MaxOps
    /\ other' = o
    /\ nops' = nops + 1
    /\ op' = name
    /\ UNCHANGED <<self, pre, arg, log, hist>>
    /\ UNCHANGED <<data, hdr, bitVars, csvVars, clVars, backVars, workVars, cmVars, parseVars>>

\* other.add(Node::field(name, value)): each field gets a value of its own
AddField ==
    \E name \in FieldNames :
        Built(NodeAdd(other, NodeField(name, U64(nops + 1))), "add")

\* other.add(Node::record(name))
AddRecord ==
    \E name \in RecordNames :
        Built(NodeAdd(other, NodeRecord(name)), "add")

\* other.create_hierarchy(path)
DoCreateHierarchy ==
    \E path \in Paths :
        Built(CreateHierarchy(other, path), "create_hierarchy")

\* other.create_hierarchy(path).kind = NodeType::Field { value }
DoCreateField ==
    \E path \in Paths :
        Built(SetKindSegs(CreateHierarchy(other, path), Split(path, "."),
                          KField(U64(nops + 1))),
              "create_field")

\* self.merge(other); other is moved into the call, a fresh root replaces it
DoMerge ==
    /\ other # NodeRoot
    /\ LET r == Merge(self, other, <<>>)
       IN  /\ self' = r.node
           /\ log' = r.events
    /\ pre' = self
    /\ arg' = other
    /\ hist' = Append(hist, other)
    /\ other' = NodeRoot
    /\ op' = "merge"
    /\ UNCHANGED <<nops, data, hdr, bitVars, csvVars, clVars, backVars, workVars, cmVars, parseVars>>

NextMerge == AddField \/ AddRecord \/ DoCreateHierarchy \/ DoCreateField \/ DoMerge

SpecMerge == InitMerge /\ [][NextMerge]_vars

(***************************************************************************)
(* Properties of merge                                                     *)
(***************************************************************************)

Foo1 == <<"f", "o", "o", "1">>

\* the Field nodes below a node, each with its path and value
RECURSIVE FieldPaths(_, _)
FieldPaths(node, path) ==
    (IF node.kind.tag = "Field"
     THEN {[path |-> path, value |-> node.kind.value]} ELSE {})
    \cup UNION {FieldPaths(node.children[k], Append(path, k)) : k \in DOMAIN node.children}

RECURSIVE NodeCount(_)
NodeCount(node) ==
    IF DOMAIN node.children = {} THEN 1
    ELSE LET ks == SortedKeys(DOMAIN node.children)
             Sum[i \in 0..Len(ks)] ==
                 IF i = 0 THEN 1 ELSE Sum[i - 1] + NodeCount(node.children[ks[i]])
         IN  Sum[Len(ks)]

\* a is b, or b followed by an instance number
IsInstanceOf(a, b) ==
    \/ a = b
    \/ \E i \in 0..(NodeCount(self) + 1) : a = b \o FormatNat(i)

\* a Field of the argument is found in self, under its names or instance names
Present(fp) ==
    \E q \in FieldPaths(self, <<>>) :
        /\ q.value = fp.value
        /\ Len(q.path) = Len(fp.path)
        /\ \A i \in 1..Len(fp.path) : IsInstanceOf(q.path[i], fp.path[i])

Events(how) == {i \in 1..Len(log) : log[i].how = how}

\* the smallest i for which name + i is not among the names taken
SmallestFree(name, taken) ==
    CHOOSE i \in 0..Cardinality(taken) :
        /\ name \o FormatNat(i) \notin taken
        /\ \A j \in 0..(i - 1) : name \o FormatNat(j) \in taken

SingleFoo(t) ==
    /\ DOMAIN t.children = {Foo}
    /\ t.children[Foo].kind.tag \in {"Field", "Record"}

\* the name the k-th of k merged trees' foo ends under
NameOfKth(k) == IF k = 1 THEN Foo ELSE Foo \o FormatNat(k - 2)

\* C2: a child of the argument that meets a same-named Record or Field of
\* self is inserted as a sibling called name + i, i the smallest number
\* whose name is free, with its own kind and value, and the existing child
\* is kept; merging k trees that each hold only a Field or Record foo gives
\* foo, foo0, foo1, ... in merge order.
C2_InstanceSplitting ==
    /\ \A e \in Events("split") :
          LET ev == log[e]
              given == ev.name \o FormatNat(SmallestFree(ev.name, ev.taken))
              recv == GetBySegs(self, ev.at)
          IN  /\ Has(recv, given)
              /\ recv.children[given].name = given
              /\ recv.children[given].kind = ev.kind
              /\ recv.children[given].kind = GetBySegs(arg, ev.at).children[ev.name].kind
    /\ \A n \in (DOMAIN arg.children) \cap (DOMAIN pre.children) :
          pre.children[n].kind.tag \in {"Record", "Field"} =>
              /\ \E e \in Events("split") : log[e].at = <<>> /\ log[e].name = n
              /\ self.children[n] = pre.children[n]
    /\ (\A k \in 1..Len(hist) : SingleFoo(hist[k])) =>
          /\ DOMAIN self.children = {NameOfKth(k) : k \in 1..Len(hist)}
          /\ \A k \in 1..Len(hist) :
                self.children[NameOfKth(k)].kind = hist[k].children[Foo].kind

C2_Witness ==
    /\ Len(hist) = 3
    /\ \A k \in 1..3 : SingleFoo(hist[k])
    /\ Has(self, Foo1)
    /\ self.children[Foo1].kind = hist[3].children[Foo].kind

\* C3 as stated: after a merge every Field of the argument is in self with
\* its value, whatever the kinds of the same-named nodes of self.
C3_NoFieldLost == \A fp \in FieldPaths(arg, <<>>) : Present(fp)

\* the argument's Field at this path met a Section or Root of self and was
\* merged into it: its children were merged, its own value was not kept
Absorbed(fp) ==
    \E e \in Events("absorb") :
        /\ Append(log[e].at, log[e].name) = fp.path
        /\ log[e].kind = KField(fp.value)
        /\ GetBySegs(self, fp.path).kind.tag \in {"Section", "Root"}

\* C3 amended: after a merge every Field of the argument is in self with its
\* value, except the Fields that met a same-named Section (or Root) of self:
\* those are merged into the Section, which stays a Section without value.
C3_NoFieldLostButAbsorbed ==
    \A fp \in FieldPaths(arg, <<>>) : Present(fp) \/ Absorbed(fp)

C3_Witness ==
    /\ \E fp \in FieldPaths(arg, <<>>) : ~Present(fp) /\ Absorbed(fp)
    /\ \E fp \in FieldPaths(arg, <<>>) : Present(fp) /\ Len(fp.path) = 2
    /\ Events("split") # {}

RECURSIVE AllSections(_)
AllSections(node) ==
    \A k \in DOMAIN node.children :
        node.children[k].kind = KSection /\ AllSections(node.children[k])

\* C4: a child of the argument that meets a same-named Section of self
\* creates no instance-named sibling; its children are merged into the
\* Section, which stays the Section it was; two trees building the same
\* Section hierarchy merge into that hierarchy.
C4_SectionTransparency ==
    /\ \A n \in (DOMAIN arg.children) \cap (DOMAIN pre.children) :
          pre.children[n].kind = KSection =>
              /\ ~ \E e \in Events("split") : log[e].at = <<>> /\ log[e].name = n
              /\ self.children[n].kind = KSection
              /\ self.children[n].name = n
              /\ DOMAIN pre.children[n].children \subseteq DOMAIN self.children[n].children
              /\ \A k \in DOMAIN arg.children[n].children :
                    \E k2 \in DOMAIN self.children[n].children : IsInstanceOf(k2, k)
    /\ (\A n \in (DOMAIN arg.children) \cap (DOMAIN pre.children) :
            pre.children[n].kind = KSection) =>
          DOMAIN self.children = (DOMAIN pre.children) \cup (DOMAIN arg.children)
    /\ (AllSections(pre) /\ AllSections(arg) /\ arg.children = pre.children) =>
          self = pre

C4_Witness ==
    /\ IsSome(GetByPath(pre, FooBarBaz))
    /\ ~IsSome(GetByPath(pre, FooBaz))
    /\ AllSections(pre)
    /\ AllSections(arg)
    /\ IsSome(GetByPath(arg, FooBaz))
    /\ IsSome(GetByPath(self, FooBarBaz))
    /\ IsSome(GetByPath(self, FooBaz))
    /\ DOMAIN self.children = {Foo}


(***************************************************************************)
(* Bit-field reader (record/decode.rs)                                     *)
(***************************************************************************)

\* widest field read_field decodes
MaxFieldBits == 64

\* chunk_size of read_field: bits per byte of Record::data
ChunkSize == 8

\* Option<u64>
None == [some |-> FALSE]

Some(v) == [some |-> TRUE, value |-> v]

MaskBitsWholeChunk(size, bit) == ChunkSize

\* number of one bits of mask: (1 << (size - bit).min(chunk_size)) - 1
MaskBits(size, bit) == Min(size - bit, ChunkSize)

NextBitWholeChunk(bit, bit_offset) == bit + ChunkSize

\* bit += chunk_size - bit_offset
NextBit(bit, bit_offset) == bit + ChunkSize - bit_offset

\* (part as u64) << bit, part below 256: the bits shifted past bit 63 are lost
ShiftLeft(part, bit) ==
    {p \in {bit + j : j \in {k \in 0..(ChunkSize - 1) : BitOf(part, k) = 1}} :
        p < MaxFieldBits}

\* the while loop of read_field
RECURSIVE ReadLoop(_, _, _, _, _)
ReadLoop(d, offset, size, bit, value) ==
    IF bit >= size THEN Some(value)
    ELSE LET chunk == (offset + bit) \div ChunkSize
         IN  IF chunk >= Len(d) THEN None
             ELSE LET bit_offset == (offset + bit) % ChunkSize
                      part == (d[chunk + 1] \div Pow2(bit_offset))
                                  % Pow2(MaskBits(size, bit))
                  IN  ReadLoop(d, offset, size, NextBit(bit, bit_offset),
                               value \cup ShiftLeft(part, bit))

ReadField(d, offset, size) ==
    IF size > MaxFieldBits THEN None ELSE ReadLoop(d, offset, size, 0, {})

\* the u64 of little-endian bytes
BytesToU64(bs) ==
    UNION {{ChunkSize * (k - 1) + j : j \in {b \in 0..(ChunkSize - 1) : BitOf(bs[k], b) = 1}} :
              k \in 1..Len(bs)}

\* Longest generated record buffer, and how far past the end of the buffer
\* and past MaxFieldBits the offsets and widths tried go.
MaxBufLen == 2
OverRun == 2

\* 0x80, 0x81, ..., 0x8F: the record of the crate's decode tests
TestData == [i \in 1..16 |-> 127 + i]

ByteSamples == {0, 165, 255}

RECURSIVE SeqsUpTo(_, _)
SeqsUpTo(S, n) ==
    IF n = 0 THEN {<<>>}
    ELSE LET shorter == SeqsUpTo(S, n - 1)
         IN  shorter \cup {Append(s, x) : s \in {t \in shorter : Len(t) = n - 1}, x \in S}

Buffers == {TestData} \cup SeqsUpTo(ByteSamples, MaxBufLen)

\* the variables the decode operations do not use
IdleMerge ==
    /\ self = NodeRoot
    /\ other = NodeRoot
    /\ pre = NodeRoot
    /\ arg = NodeRoot
    /\ log = <<>>
    /\ hist = <<>>
    /\ nops = 0

\* the variables read_field does not use
IdleCsv ==
    /\ layout = <<>>
    /\ coff = 0
    /\ dec = [ok |-> FALSE, err |-> "not decoded"]
    /\ steps = <<>>
    /\ nlines = 0

InitBits ==
    /\ IdleMerge
    /\ IdleBack
    /\ IdleWork
    /\ IdleCollateral
    /\ IdleCrashLog
    /\ IdleCsv
    /\ data \in Buffers
    /\ hdr = [tag |-> "none"]
    /\ boff = 0
    /\ bsize = 0
    /\ bres = None
    /\ op = "init"

\* record.read_field(offset, size), once on the record drawn
DoReadField ==
    /\ op = "init"
    /\ \E offset \in 0..(ChunkSize * Len(data) + OverRun),
          size \in 0..(MaxFieldBits + OverRun) :
           /\ boff' = offset
           /\ bsize' = size
           /\ bres' = ReadField(data, offset, size)
           /\ op' = "read_field"
           /\ UNCHANGED <<data, hdr, nodeVars, csvVars, clVars, backVars, workVars, cmVars, parseVars>>

NextBits == DoReadField

SpecBits == InitBits /\ [][NextBits]_vars

\* bit i of the buffer, bits numbered from the least significant bit of byte 0
BufferBit(d, i) == BitOf(d[(i \div 8) + 1], i % 8)

\* C5: for a width of at most 64 bits that ends within the buffer, read_field
\* returns the integer whose bit i is bit (offset + i) of the buffer, and no
\* other bit; on 0x80..0x8F, offset 4 gives 0x8878685848382818 for width 64
\* and 0x18 for width 8.
C5_BitfieldExtraction ==
    op = "read_field" =>
        /\ (bsize <= 64 /\ boff + bsize <= 8 * Len(data)) =>
              bres = Some({i \in 0..(bsize - 1) : BufferBit(data, boff + i) = 1})
        /\ (data = TestData /\ boff = 4 /\ bsize = 64) =>
              bres = Some(BytesToU64(<<24, 40, 56, 72, 88, 104, 120, 136>>))
        /\ (data = TestData /\ boff = 4 /\ bsize = 8) =>
              bres = Some(U64(24))

C5_Witness ==
    /\ op = "read_field"
    /\ data = TestData
    /\ boff = 4
    /\ bsize = 64
    /\ bres.some
    /\ 63 \in bres.value


(***************************************************************************)
(* Decode definitions (record/decode.rs)                                   *)
(***************************************************************************)

DELIMITER == ";"

\* the column names decode_with_csv matches
ColName == <<"n", "a", "m", "e">>
ColOffset == <<"o", "f", "f", "s", "e", "t">>
ColSize == <<"s", "i", "z", "e">>
ColDescription == <<"d", "e", "s", "c", "r", "i", "p", "t", "i", "o", "n">>

\* Header::default(): only the header type bears on the decode definition
HeaderDefault == [header_type |-> [tag |-> "Type1"]]

HeaderType6(socket_id, die_id) ==
    [header_type |-> [tag |-> "Type6", socket_id |-> socket_id, die_id |-> die_id]]

GetRootPath(h) ==
    IF h.header_type.tag = "Type6"
    THEN Some(<<"p", "r", "o", "c", "e", "s", "s", "o", "r", "s", ".", "c", "p", "u">> \o FormatNat(h.header_type.socket_id)
              \o <<".", "d", "i", "e">> \o FormatNat(h.header_type.die_id))
    ELSE None

\* str::lines: the text cut at every line feed, a final empty line dropped
Lines(text) ==
    LET pieces == Split(text, "\n")
    IN  IF pieces[Len(pieces)] = <<>>
        THEN SubSeq(pieces, 1, Len(pieces) - 1)
        ELSE pieces

\* Result
Ok(v) == [ok |-> TRUE, value |-> v]

ParseIntError == [ok |-> FALSE, err |-> "ParseIntError"]

RECURSIVE DigitsToNat(_, _)
DigitsToNat(s, acc) ==
    IF s = <<>> THEN acc ELSE DigitsToNat(Tail(s), 10 * acc + DigitVal(s[1]))

ParseUsizeLenient(s) ==
    LET digits == IF s # <<>> /\ s[1] = "+" THEN Tail(s) ELSE s
    IN  IF digits = <<>> \/ \E i \in 1..Len(digits) : ~IsDigit(digits[i])
        THEN Ok(0)
        ELSE Ok(DigitsToNat(digits, 0))

\* str::parse::<usize>: an optional plus sign, then one or more digits
ParseUsize(s) ==
    LET digits == IF s # <<>> /\ s[1] = "+" THEN Tail(s) ELSE s
    IN  IF digits = <<>> \/ \E i \in 1..Len(digits) : ~IsDigit(digits[i])
        THEN ParseIntError
        ELSE Ok(DigitsToNat(digits, 0))

\* DecodeDefinitionEntry::default()
DefaultEntry == [name |-> <<>>, offset |-> 0, size |-> 0, description |-> <<>>]

\* the loop over the fields of a row: the entry, or the error of the first
\* offset or size field that does not parse
RECURSIVE ParseEntry(_, _, _, _)
ParseEntry(fields, columns, i, entry) ==
    IF i > Len(fields) THEN Ok(entry)
    ELSE IF i > Len(columns) THEN ParseEntry(fields, columns, i + 1, entry)
    ELSE LET field == fields[i]
             column == columns[i]
         IN  IF column = ColName
             THEN ParseEntry(fields, columns, i + 1, [entry EXCEPT !.name = field])
             ELSE IF column = ColOffset
             THEN LET r == ParseUsize(field)
                  IN  IF r.ok
                      THEN ParseEntry(fields, columns, i + 1,
                                      [entry EXCEPT !.offset = r.value])
                      ELSE r
             ELSE IF column = ColSize
             THEN LET r == ParseUsize(field)
                  IN  IF r.ok
                      THEN ParseEntry(fields, columns, i + 1,
                                      [entry EXCEPT !.size = r.value])
                      ELSE r
             ELSE IF column = ColDescription
             THEN ParseEntry(fields, columns, i + 1,
                             [entry EXCEPT !.description = field])
             ELSE ParseEntry(fields, columns, i + 1, entry)

PopNothing(path) == path

PopAll(path) == <<>>

\* Vec::pop, the value dropped
Pop(path) == IF path = <<>> THEN <<>> ELSE SubSeq(path, 1, Len(path) - 1)

\* the loop over the segments after the first one
RECURSIVE WalkSegments(_, _)
WalkSegments(path, segments) ==
    IF segments = <<>> THEN path
    ELSE WalkSegments(IF segments[1] = <<>> THEN Pop(path)
                      ELSE Append(path, segments[1]),
                      Tail(segments))

AddRecordAlways(record_root, top) == NodeAdd(record_root, NodeRecord(top))

\* if record_root.get(top).is_none() { record_root.add(Node::record(top)) }
AddRecordIfAbsent(record_root, top) ==
    IF Has(record_root, top) THEN record_root
    ELSE NodeAdd(record_root, NodeRecord(top))

\* create_hierarchy over a list of segments: the nodes of the path are
\* fetched, the missing ones created as Sections; an empty list is the node
CreateHierarchyFromIter(node, path) == CreateHierarchySegs(node, path)

\* the node at a path replaced
RECURSIVE PutAt(_, _, _)
PutAt(node, segs, new) ==
    IF segs = <<>> THEN new
    ELSE [node EXCEPT !.children[segs[1]] = PutAt(@, Tail(segs), new)]

WriteNodeAlways(node, description, value) ==
    [node EXCEPT !.description = description,
                 !.kind = KField(IF value.some THEN value.value ELSE {})]

\* node.description = ..; if let Some(value) = .. { node.kind = Field { value } }
WriteNode(node, description, value) ==
    [node EXCEPT !.description = description,
                 !.kind = IF value.some THEN KField(value.value) ELSE @]


\* One row of the definition, decoded against the tree below record_root
\* and the current path.  The step tells what the row did ("error": a field
\* did not parse, "skip": empty name, "row": a node was resolved), the tree
\* and path it found (from, from_path) and left (root, path), and the
\* outcome of read_field.
DecodeLine(record_root, current_path, line, columns, d, offset) ==
    LET parsed == ParseEntry(Split(line, DELIMITER), columns, 1, DefaultEntry)
        same(how, entry) ==
            [how |-> how, line |-> line, entry |-> entry,
             from |-> record_root, from_path |-> current_path,
             root |-> record_root, path |-> current_path, value |-> None]
    IN  IF ~parsed.ok THEN same("error", DefaultEntry)
        ELSE LET entry == parsed.value
             IN  IF entry.name = <<>> THEN same("skip", entry)
                 ELSE LET segments == Split(entry.name, ".")
                          top == segments[1]
                          path0 == IF top # <<>> THEN <<top>> ELSE current_path
                          root0 == IF top # <<>>
                                   THEN AddRecordIfAbsent(record_root, top)
                                   ELSE record_root
                          path1 == WalkSegments(path0, Tail(segments))
                          root1 == CreateHierarchyFromIter(root0, path1)
                          value == ReadField(d, offset * 8 + entry.offset, entry.size)
                          node == WriteNode(GetBySegs(root1, path1),
                                            entry.description, value)
                      IN  [how |-> "row", line |-> line, entry |-> entry,
                           from |-> record_root, from_path |-> current_path,
                           root |-> PutAt(root1, path1, node), path |-> path1,
                           value |-> value]

\* the loop over the rows: the steps taken, the last one an "error" step
\* when a row made decode_with_csv return early
RECURSIVE DecodeRows(_, _, _, _, _, _, _)
DecodeRows(record_root, current_path, rows, columns, d, offset, done) ==
    IF rows = <<>> THEN done
    ELSE LET after(s) ==
                 IF s.how = "error" THEN Append(done, s)
                 ELSE DecodeRows(s.root, s.path, Tail(rows), columns, d, offset,
                                 Append(done, s))
         IN  CHOOSE t \in {after(s) : s \in {DecodeLine(record_root, current_path,
                                                       rows[1], columns, d, offset)}} :
                 TRUE

\* decode_with_csv: the Result and the steps of the rows
DecodeWithCsv(d, h, text, offset) ==
    LET custom_root == GetRootPath(h)
        root == IF custom_root.some
                THEN CreateHierarchy(NodeRoot, custom_root.value)
                ELSE NodeRoot
        root_segs == IF custom_root.some THEN Split(custom_root.value, ".") ELSE <<>>
        lines == Lines(text)
        columns == IF lines = <<>> THEN <<>> ELSE Split(lines[1], DELIMITER)
        rows == IF lines = <<>> THEN <<>> ELSE Tail(lines)
        outcome(trace) ==
            [result |-> IF trace = <<>> THEN Ok(root)
                        ELSE IF trace[Len(trace)].how = "error" THEN ParseIntError
                        ELSE Ok(PutAt(root, root_segs, trace[Len(trace)].root)),
             steps |-> trace]
    IN  CHOOSE o \in {outcome(trace) :
                         trace \in {DecodeRows(GetBySegs(root, root_segs), <<>>, rows,
                                               columns, d, offset, <<>>)}} : TRUE

\* Rows appended to a decode definition in a run.
MaxRows == 2

\* the first 8 bytes of TestData: the record of invalid_decode_defs
TestData8 == SubSeq(TestData, 1, 8)

CsvColumns ==
    { <<"n", "a", "m", "e", ";", "o", "f", "f", "s", "e", "t", ";", "s", "i", "z", "e", ";", "d", "e", "s", "c", "r", "i", "p", "t", "i", "o", "n", ";", "b", "i", "t", "f", "i", "e", "l", "d">>,
      <<"n", "a", "m", "e", ";", "s", "i", "z", "e", ";", "o", "f", "f", "s", "e", "t">>,
      <<"o", "f", "f", "s", "e", "t", ";", "n", "a", "m", "e", ";", "s", "i", "z", "e">>,
      <<"f", "u", "l", "l", "n", "a", "m", "e", ";", "s", "i", "z", "e", ";", "o", "f", "f", "s", "e", "t">> }

BasicDecodeCsv ==
    <<"n", "a", "m", "e", ";", "o", "f", "f", "s", "e", "t", ";", "s", "i", "z", "e", ";", "d", "e", "s", "c", "r", "i", "p", "t", "i", "o", "n", ";", "b", "i", "t", "f", "i", "e", "l", "d", "\n", "f", "o", "o", ";", "0", ";", "1", "2", "8", ";", ";", "0", "\n", "f", "o", "o", ".", "b", "a", "r", ".", "b", "a", "z", ";", "4", ";", "6", "4", ";", ";", "0", "\n", "f", "o", "o", ".", "b", "a", "r", ";", "4", ";", "8", ";", ";", "0">>

RelativePathsCsv ==
    <<"n", "a", "m", "e", ";", "o", "f", "f", "s", "e", "t", ";", "s", "i", "z", "e", ";", "d", "e", "s", "c", "r", "i", "p", "t", "i", "o", "n", ";", "b", "i", "t", "f", "i", "e", "l", "d", "\n", "f", "o", "o", ";", "0", ";", "1", "2", "8", ";", ";", "0", "\n", ".", "a", "a", "a", ";", "8", ";", "8", ";", ";", "0", "\n", ".", "b", "b", "b", ";", "1", "6", ";", "8", ";", ";", "0", "\n", ".", ".", "c", "c", "c", ";", "2", "4", ";", "8", ";", ";", "0", "\n", "f", "o", "o", ".", "d", "d", "d", ".", "e", "e", "e", ";", "3", "2", ";", "8", ";", ";", "0", "\n", ".", ".", ".", "d", "d", "d", ";", "4", "0", ";", "8", ";", ";", "0", "\n", ".", ".", "f", "f", "f", ";", "4", "8", ";", "8", ";", ";", "0">>

InvalidOffsetCsv ==
    <<"n", "a", "m", "e", ";", "o", "f", "f", "s", "e", "t", ";", "s", "i", "z", "e", ";", "d", "e", "s", "c", "r", "i", "p", "t", "i", "o", "n", ";", "b", "i", "t", "f", "i", "e", "l", "d", "\n", "f", "o", "o", ";", "0", ";", "6", "4", ";", ";", "0", "\n", "f", "o", "o", ".", "b", "a", "r", ";", "=", "2", "+", "2", ";", "8", ";", ";", "0">>

InvalidAfterSkipCsv ==
    <<"n", "a", "m", "e", ";", "o", "f", "f", "s", "e", "t", ";", "s", "i", "z", "e", ";", "d", "e", "s", "c", "r", "i", "p", "t", "i", "o", "n", ";", "b", "i", "t", "f", "i", "e", "l", "d", "\n", "f", "o", "o", ";", "0", ";", "6", "4", ";", ";", "0", "\n", ";", "0", ";", "8", "\n", "f", "o", "o", ".", "b", "a", "r", ";", "=", "2", "+", "2", ";", "8", ";", ";", "0", "\n", ".", "a", "a", "a", ";", "8", ";", "8">>

NoNameColumnCsv == <<"f", "u", "l", "l", "n", "a", "m", "e", ";", "s", "i", "z", "e", ";", "o", "f", "f", "s", "e", "t", "\n", "a", "a", "a", ";", "4", ";", "8", "\n">>

ShortRowCsv == <<"n", "a", "m", "e", ";", "s", "i", "z", "e", ";", "o", "f", "f", "s", "e", "t", "\n", "f", "o", "o", ".", "b", "a", "r", ";", "8", "\n">>

RelativeFirstCsv == <<"n", "a", "m", "e", ";", "s", "i", "z", "e", ";", "o", "f", "f", "s", "e", "t", ";", "s", "i", "z", "e", "\n", ".", ".", ".", ".", "f", "o", "o", ".", "b", "a", "r", ";", "8", ";", "0", "\n">>

DottedPathsCsv == <<"n", "a", "m", "e", ";", "o", "f", "f", "s", "e", "t", ";", "s", "i", "z", "e", "\n", "f", "o", "o", ";", "0", ";", "1", "2", "8", "\n", ".", "a", "a", "a", ";", "8", ";", "8", "\n", ".", ".", "b", "b", "b", ";", "1", "6", ";", "8", "\n", ".", ".", ".", "c", "c", "c", ";", "2", "4", ";", "8">>

ExampleLayouts ==
    { BasicDecodeCsv, RelativePathsCsv, InvalidOffsetCsv, InvalidAfterSkipCsv,
      NoNameColumnCsv, ShortRowCsv, RelativeFirstCsv, DottedPathsCsv }

StartLayouts == {<<>>} \cup {c \o <<"\n">> : c \in CsvColumns} \cup ExampleLayouts

SampleRows ==
    { <<"f", "o", "o", ";", "0", ";", "1", "2", "8", ";", ";", "0">>,
      <<".", "a", "a", "a", ";", "8", ";", "8", ";", ";", "0">>,
      <<".", ".", "b", "b", "b", ";", "1", "6", ";", "8", ";", "d", ";", "0">>,
      <<"f", "o", "o", ".", "b", "a", "r", ";", "4", ";", "8">>,
      <<"b", "a", "r", ";", "1", "2", "0", ";", "1", "6">>,
      <<".", "a", "a", "a", ".", ".", "b", "b", "b", ";", "0", ";", "8">>,
      <<".", ".">>,
      <<";", "0", ";", "8">>,
      <<"f", "o", "o", ".", "b", "a", "r", ";", "=", "2", "+", "2", ";", "8", ";", ";", "0">>,
      <<>>,
      <<"f", "o", "o", ";", "+", "8", ";", "8">>,
      <<";", "0", ";", "x">> }

SectionOffsets == {0, 1}

\* a text made to end with a line feed
Terminated(text) ==
    IF text = <<>> \/ text[Len(text)] = "\n" THEN text ELSE text \o <<"\n">>

InitCsv ==
    /\ IdleMerge
    /\ IdleBack
    /\ IdleWork
    /\ IdleCollateral
    /\ IdleCrashLog
    /\ data \in {TestData, TestData8}
    /\ hdr \in {HeaderDefault, HeaderType6(0, 1)}
    /\ boff = 0
    /\ bsize = 0
    /\ bres = None
    /\ layout \in StartLayouts
    /\ coff = 0
    /\ dec = [ok |-> FALSE, err |-> "not decoded"]
    /\ steps = <<>>
    /\ nlines = IF Lines(layout) = <<>> THEN 0 ELSE Len(Lines(layout)) - 1
    /\ op = "init"

\* one more row written at the end of the decode definition
AppendRow ==
    /\ op = "init"
    /\ nlines < MaxRows
    /\ \E row \in SampleRows : layout' = Terminated(layout) \o row \o <<"\n">>
    /\ nlines' = nlines + 1
    /\ UNCHANGED <<data, hdr, coff, dec, steps, op>>
    /\ UNCHANGED <<bitVars, nodeVars, clVars, backVars, workVars, cmVars, parseVars>>

\* record.decode_with_csv(layout, offset), once on the definition written
DoDecodeWithCsv ==
    /\ op = "init"
    /\ \E offset \in SectionOffsets :
           \E r \in {DecodeWithCsv(data, hdr, layout, offset)} :
               /\ coff' = offset
               /\ dec' = IF r.result.ok THEN [ok |-> TRUE, root |-> r.result.value]
                         ELSE r.result
               /\ steps' = r.steps
    /\ op' = "decode_with_csv"
    /\ UNCHANGED <<data, hdr, layout, nlines>>
    /\ UNCHANGED <<bitVars, nodeVars, clVars, backVars, workVars, cmVars, parseVars>>

NextCsv == AppendRow \/ DoDecodeWithCsv

SpecCsv == InitCsv /\ [][NextCsv]_vars


(***************************************************************************)
(* Properties of decode_with_csv                                           *)
(***************************************************************************)

Aaa == <<"a", "a", "a">>
Bbb == <<"b", "b", "b">>
Ccc == <<"c", "c", "c">>
Ddd == <<"d", "d", "d">>
Fff == <<"f", "f", "f">>
Bar == <<"b", "a", "r">>

Decoded == op = "decode_with_csv"

\* the rows that resolved a node
RowSteps == {k \in 1..Len(steps) : steps[k].how = "row"}

LayoutColumns == IF Lines(layout) = <<>> THEN <<>> ELSE Split(Lines(layout)[1], ";")

LayoutRows == IF Lines(layout) = <<>> THEN <<>> ELSE Tail(Lines(layout))

\* a text that stands for an unsigned integer
IsNumber(f) ==
    LET d == IF f # <<>> /\ f[1] = "+" THEN Tail(f) ELSE f
    IN  d # <<>> /\ \A i \in 1..Len(d) : IsDigit(d[i])

\* a row that holds, under an offset or size column, a text that is no number
BadRow(line, columns) ==
    LET fields == Split(line, ";")
    IN  \E i \in 1..Min(Len(fields), Len(columns)) :
            columns[i] \in {ColOffset, ColSize} /\ ~IsNumber(fields[i])

\* what the row holds under the name column, empty when it holds nothing there
NameField(line, columns) ==
    LET fields == Split(line, ";")
        at == {i \in 1..Min(Len(fields), Len(columns)) : columns[i] = ColName}
    IN  IF at = {} THEN <<>> ELSE fields[CHOOSE i \in at : \A j \in at : j <= i]

\* the bit range of the entry is wider than 64 bits, or has a bit past the
\* end of the record
OutOfRange(e) ==
    \/ e.size > 64
    \/ e.size >= 1 /\ 8 * coff + e.offset + e.size > 8 * Len(data)

\* C6: a row whose width exceeds 64 bits, or whose bit range has a bit past
\* the end of the buffer, reads no value from read_field; this is no error
\* (a definition without unparseable numbers decodes), the node of the row
\* exists afterwards and the row has not made it a Field: it is a Field only
\* if it was that same Field before the row.
C6_NoValue ==
    Decoded =>
        /\ (\A r \in 1..Len(LayoutRows) : ~BadRow(LayoutRows[r], LayoutColumns)) => dec.ok
        /\ \A k \in RowSteps :
              OutOfRange(steps[k].entry) =>
                  LET s == steps[k]
                      before == GetBySegs(s.from, s.path)
                      after == GetBySegs(s.root, s.path)
                  IN  /\ s.value = None
                      /\ IsSome(after)
                      /\ after.kind.tag = "Field" =>
                             (IsSome(before) /\ before.kind = after.kind)

C6_Witness ==
    /\ Decoded
    /\ dec.ok
    /\ \E k \in RowSteps, j \in RowSteps :
           /\ steps[k].entry.size > 64
           /\ GetBySegs(steps[k].root, steps[k].path).kind.tag = "Record"
           /\ steps[j].entry.size \in 1..64
           /\ OutOfRange(steps[j].entry)
           /\ GetBySegs(steps[j].root, steps[j].path).kind.tag = "Record"

\* the decode of foo;0;128, .aaa;8;8, ..bbb;16;8, ...ccc;24;8 against the
\* 16-byte record 0x80..0x8F
DottedPathsDecoded ==
    /\ Decoded
    /\ layout = DottedPathsCsv
    /\ data = TestData
    /\ hdr = HeaderDefault
    /\ coff = 0

\* C7 as stated: the four rows produce a Record at foo, a node at foo.aaa
\* and a node at foo.aaa.bbb.
C7_DottedPathsAsStated ==
    DottedPathsDecoded =>
        /\ dec.ok
        /\ GetBySegs(dec.root, <<Foo>>).kind = KRecord
        /\ IsSome(GetBySegs(dec.root, <<Foo, Aaa>>))
        /\ IsSome(GetBySegs(dec.root, <<Foo, Aaa, Bbb>>))

\* C7: the four rows produce a Record at foo, the Field 0x81 at foo.aaa, the
\* Field 0x82 at foo.bbb and the Field 0x83 at ccc directly under the root;
\* there is no node at foo.aaa.bbb.
C7_DottedPaths ==
    DottedPathsDecoded =>
        /\ dec.ok
        /\ GetBySegs(dec.root, <<Foo>>).kind = KRecord
        /\ GetBySegs(dec.root, <<Foo, Aaa>>).kind = KField(U64(129))
        /\ GetBySegs(dec.root, <<Foo, Bbb>>).kind = KField(U64(130))
        /\ GetBySegs(dec.root, <<Ccc>>).kind = KField(U64(131))
        /\ ~IsSome(GetBySegs(dec.root, <<Foo, Aaa, Bbb>>))
        /\ DOMAIN dec.root.children = {Foo, Ccc}
        /\ DOMAIN dec.root.children[Foo].children = {Aaa, Bbb}

C7_Witness ==
    /\ DottedPathsDecoded
    /\ dec.ok
    /\ Len(steps) = 4
    /\ steps[3].path = <<Foo, Bbb>>
    /\ steps[4].path = <<Ccc>>


\* the number of dots a name starts with
LeadingDots(name) ==
    CHOOSE k \in 0..Len(name) :
        /\ \A i \in 1..k : name[i] = "."
        /\ k = Len(name) \/ name[k + 1] # "."

\* a path without its last n segments; an empty path stays empty
DropLast(path, n) == SubSeq(path, 1, IF Len(path) > n THEN Len(path) - n ELSE 0)

NonEmptySegments(name) == SelectSeq(Split(name, "."), LAMBDA x : x # <<>>)

\* dots, then one or more segments, none of them empty
PlainRelative(name) ==
    /\ LeadingDots(name) >= 1
    /\ LeadingDots(name) < Len(name)
    /\ LET rest == Split(SubSeq(name, LeadingDots(name) + 1, Len(name)), ".")
       IN  \A i \in 1..Len(rest) : rest[i] # <<>>

OnlyDots(name) == name # <<>> /\ LeadingDots(name) = Len(name)

\* the paths the rows of the crate's relative_paths test and of the
\* relative-first definition of invalid_decode_defs resolve to
RelativeExamples ==
    /\ layout = RelativePathsCsv =>
          /\ dec.ok
          /\ steps[1].path = <<Foo>>
          /\ steps[2].path = <<Foo, Aaa>>
          /\ steps[3].path = <<Foo, Aaa, Bbb>>
          /\ steps[4].path = <<Foo, Aaa, Ccc>>
          /\ steps[6].path = <<Foo, Ddd>>
          /\ steps[7].path = <<Foo, Fff>>
    /\ layout = RelativeFirstCsv =>
          /\ dec.ok
          /\ steps[1].path = <<Foo, Bar>>
          /\ steps[1].from.children = NoChildren
          /\ Has(steps[1].root, Foo)
          /\ Has(steps[1].root.children[Foo], Bar)

\* C8 as stated: every name that starts with k >= 1 dots removes k-1
\* trailing segments of the current path and appends its non-empty segments.
C8_RelativeNamesAsStated ==
    Decoded =>
        /\ RelativeExamples
        /\ \A k \in RowSteps :
              LET s == steps[k]
                  name == s.entry.name
              IN  name[1] = "." =>
                      s.path = DropLast(s.from_path, LeadingDots(name) - 1)
                                   \o NonEmptySegments(name)

\* C8: a name of k >= 1 dots followed by one or more non-empty segments
\* removes k-1 trailing segments of the current path and appends those
\* segments; a name of k dots only removes k segments; an empty segment
\* after a non-empty one removes the segment last appended (.aaa..bbb
\* appends bbb only).  The rows of the relative_paths test and a relative
\* row before any absolute row resolve as the claim says.
C8_RelativeNames ==
    Decoded =>
        /\ RelativeExamples
        /\ \A k \in RowSteps :
              LET s == steps[k]
                  name == s.entry.name
              IN  /\ PlainRelative(name) =>
                         s.path = DropLast(s.from_path, LeadingDots(name) - 1)
                                      \o NonEmptySegments(name)
                  /\ OnlyDots(name) =>
                         s.path = DropLast(s.from_path, LeadingDots(name))
                  /\ name = <<".", "a", "a", "a", ".", ".", "b", "b", "b">> => s.path = Append(s.from_path, Bbb)

C8_Witness ==
    /\ Decoded
    /\ \E k \in RowSteps, j \in RowSteps :
           /\ steps[k].entry.name = <<".", "a", "a", "a", ".", ".", "b", "b", "b">>
           /\ OnlyDots(steps[j].entry.name)
           /\ steps[j].from_path # <<>>

\* the rows whose name starts with a non-empty segment
AbsoluteSteps == {k \in RowSteps : Split(steps[k].entry.name, ".")[1] # <<>>}

C10_ParseErrorAborts ==
    Decoded =>
        /\ (\E r \in 1..Len(LayoutRows) : BadRow(LayoutRows[r], LayoutColumns)) =>
               dec = ParseIntError
        /\ \A k \in 1..Len(steps) :
               NameField(steps[k].line, LayoutColumns) = <<>> =>
                   /\ steps[k].how # "row"
                   /\ steps[k].root = steps[k].from
                   /\ steps[k].path = steps[k].from_path

C10_Witness ==
    /\ Decoded
    /\ layout = InvalidAfterSkipCsv
    /\ dec = ParseIntError
    /\ Len(steps) = 3
    /\ steps[1].how = "row"
    /\ steps[2].how = "skip"
    /\ steps[3].how = "error"


(***************************************************************************)
(* Bytes and slices                                                        *)
(***************************************************************************)

\* s[a..b]
Slice(s, a, b) == SubSeq(s, a + 1, b)

\* s.get(a..b)
Get(s, a, b) == IF a <= b /\ b <= Len(s) THEN Some(Slice(s, a, b)) ELSE None

\* s.get(a..)
GetFrom(s, a) == IF a <= Len(s) THEN Some(Slice(s, a, Len(s))) ELSE None

StartsWith(s, prefix) == Len(s) >= Len(prefix) /\ SubSeq(s, 1, Len(prefix)) = prefix

Zeros(n) == [i \in 1..n |-> 0]

\* u16::from_le_bytes
LeU16(b) == b[1] + 256 * b[2]

\* u32::from_le_bytes, for lengths below 2^31
LeU32(b) == b[1] + 256 * b[2] + 65536 * b[3] + 16777216 * b[4]

\* u16::to_le_bytes and u32::to_le_bytes
ToLeU16(n) == <<n % 256, (n \div 256) % 256>>

ToLeU32(n) ==
    <<n % 256, (n \div 256) % 256, (n \div 65536) % 256, (n \div 16777216) % 256>>

\* all the byte sequences of a sequence of byte sequences, end to end
RECURSIVE Concat(_)
Concat(ss) == IF ss = <<>> THEN <<>> ELSE ss[1] \o Concat(Tail(ss))

Reverse(s) == [i \in 1..Len(s) |-> s[Len(s) + 1 - i]]

(***************************************************************************)
(* Record headers (header.rs)                                              *)
(***************************************************************************)

\* record_types
ECORE == 6
PCORE == 4
BOX == 61
MCA == 62

\* 0xdeadbeef, little-endian
DeadBeef == <<239, 190, 173, 222>>

\* Version::from_slice with 0 as the only termination marker
VersionFromSliceZeroOnly(slice) ==
    IF Len(slice) < 4 THEN None
    ELSE LET b == SubSeq(slice, 1, 4)
         IN  IF b = Zeros(4) THEN None
             ELSE Some([revision |-> b[1],
                        header_type |-> b[2] % 16,
                        product_id |-> (b[2] \div 16) + 16 * b[3],
                        record_type |-> b[4] % 64,
                        cldic |-> (b[4] \div 64) % 2 = 1,
                        consumed |-> b[4] \div 128 = 1])

\* Version::from_slice: the fields of the version dword, taken from its bytes
VersionFromSlice(slice) ==
    IF Len(slice) < 4 THEN None
    ELSE LET b == SubSeq(slice, 1, 4)
         IN  IF b = Zeros(4) \/ b = DeadBeef THEN None
             ELSE Some([revision |-> b[1],
                        header_type |-> b[2] % 16,
                        product_id |-> (b[2] \div 16) + 16 * b[3],
                        record_type |-> b[4] % 64,
                        cldic |-> (b[4] \div 64) % 2 = 1,
                        consumed |-> b[4] \div 128 = 1])

\* Version::as_u32, as little-endian bytes
VersionBytes(v) ==
    <<v.revision,
      v.header_type + 16 * (v.product_id % 16),
      v.product_id \div 16,
      v.record_type + (IF v.cldic THEN 64 ELSE 0) + (IF v.consumed THEN 128 ELSE 0)>>

\* RecordSize::from_slice
RecordSizeFromSlice(slice) ==
    IF Len(slice) < 8 THEN None
    ELSE Some([record_size |-> LeU16(Slice(slice, 4, 6)),
               extended_record_size |-> LeU16(Slice(slice, 6, 8))])

\* timestamp, agent_version and reason: the fields all the header types
\* from 2 on begin with; u64 and u32 values are kept as their bytes
CommonFields(slice) ==
    [timestamp |-> Slice(slice, 8, 16),
     agent_version |-> Slice(slice, 16, 20),
     reason |-> Slice(slice, 20, 24)]

Type2FromSlice(slice) ==
    IF Len(slice) < 24 THEN None
    ELSE Some([tag |-> "Type2"] @@ CommonFields(slice))

\* cs_data & 0x7FFFFFFF and cs_data >> 31, on the bytes of cs_data
Type3FromSlice(slice) ==
    IF Len(slice) < 28 THEN None
    ELSE Some([tag |-> "Type3",
               completion_status |->
                   <<slice[25], slice[26], slice[27], slice[28] % 128>>,
               collection_complete |-> slice[28] \div 128 = 1]
              @@ CommonFields(slice))

Type4FromSlice(slice) ==
    IF Len(slice) < 32 THEN None
    ELSE Some([tag |-> "Type4",
               whoami |-> Slice(slice, 24, 28),
               misc |-> Slice(slice, 28, 32)] @@ CommonFields(slice))

Type5FromSlice(slice) ==
    IF Len(slice) < 32 THEN None
    ELSE Some([tag |-> "Type5",
               completion_status |->
                   <<slice[25], slice[26], slice[27], slice[28] % 128>>,
               collection_complete |-> slice[28] \div 128 = 1,
               error_status |-> Slice(slice, 28, 32)] @@ CommonFields(slice))

\* type6_from_slice, were the completion status dwords that the slice does
\* not hold left out instead of failing the parse
Type6FromSliceOpenEnded(slice) ==
    IF Len(slice) < 28 THEN None
    ELSE LET completion_status_size == LeU16(Slice(slice, 26, 28)) % 128
             held == Min(completion_status_size, (Len(slice) - 28) \div 4)
         IN  Some([tag |-> "Type6",
                   die_id |-> slice[25],
                   socket_id |-> slice[26],
                   completion_status_size |-> completion_status_size,
                   collection_complete |-> slice[28] \div 128 = 1,
                   completion_status |->
                       [dword \in 1..held |->
                           Slice(slice, 28 + 4 * (dword - 1), 28 + 4 * dword)]]
                  @@ CommonFields(slice))

Type6FromSlice(slice) ==
    IF Len(slice) < 28 THEN None
    ELSE LET completion_status_size == LeU16(Slice(slice, 26, 28)) % 128
         IN  IF Len(slice) < 28 + 4 * completion_status_size THEN None
             ELSE Some([tag |-> "Type6",
                        die_id |-> slice[25],
                        socket_id |-> slice[26],
                        completion_status_size |-> completion_status_size,
                        collection_complete |-> slice[28] \div 128 = 1,
                        completion_status |->
                            [dword \in 1..completion_status_size |->
                                Slice(slice, 28 + 4 * (dword - 1), 28 + 4 * dword)]]
                       @@ CommonFields(slice))

\* Result<.., Error>
Err(e) == [ok |-> FALSE, err |-> e]

\* Option to Result: ok_or(Error::InvalidHeader)
OkOrInvalidHeader(o) == IF o.some THEN Ok(o.value) ELSE Err("InvalidHeader")

\* HeaderType::from_slice
HeaderTypeFromSlice(header_type_value, slice) ==
    CASE header_type_value = 0 -> Ok([tag |-> "Type0"])
      [] header_type_value = 1 -> Ok([tag |-> "Type1"])
      [] header_type_value = 2 -> OkOrInvalidHeader(Type2FromSlice(slice))
      [] header_type_value = 3 -> OkOrInvalidHeader(Type3FromSlice(slice))
      [] header_type_value = 4 -> OkOrInvalidHeader(Type4FromSlice(slice))
      [] header_type_value = 5 -> OkOrInvalidHeader(Type5FromSlice(slice))
      [] header_type_value = 6 -> OkOrInvalidHeader(Type6FromSlice(slice))
      [] OTHER -> Err("InvalidHeaderType")

\* Header::from_slice: Ok(Some(header)), Ok(None) at a termination marker,
\* or an error
HeaderFromSlice(slice) ==
    LET version == VersionFromSlice(slice)
        size == RecordSizeFromSlice(slice)
    IN  IF ~version.some THEN Ok(None)
        ELSE IF ~size.some THEN Err("InvalidHeader")
        ELSE LET header_type == HeaderTypeFromSlice(version.value.header_type, slice)
             IN  IF ~header_type.ok THEN header_type
                 ELSE Ok(Some([version |-> version.value,
                               size |-> size.value,
                               header_type |-> header_type.value]))

\* the granularity with every PCORE record counted in bytes
RecordSizeGranularityAnyProduct(h) ==
    IF h.version.record_type = ECORE THEN 1
    ELSE IF h.version.record_type = PCORE THEN 1
    ELSE 4

RecordSizeGranularity(h) ==
    IF h.version.record_type = ECORE THEN 1
    ELSE IF h.version.record_type = PCORE /\ h.version.product_id < 113 THEN 1
    ELSE 4

\* Header::record_size
RecordSizeOf(h) ==
    (h.size.record_size + h.size.extended_record_size) * RecordSizeGranularity(h)

\* header_size without the completion status dwords of a Type6 header
HeaderSizeNoStatus(h) ==
    CASE h.header_type.tag \in {"Type0", "Type1"} -> 8
      [] h.header_type.tag = "Type2" -> 24
      [] h.header_type.tag = "Type3" -> 28
      [] h.header_type.tag \in {"Type4", "Type5"} -> 32
      [] h.header_type.tag = "Type6" -> 28

\* Header::header_size
HeaderSize(h) ==
    CASE h.header_type.tag \in {"Type0", "Type1"} -> 8
      [] h.header_type.tag = "Type2" -> 24
      [] h.header_type.tag = "Type3" -> 28
      [] h.header_type.tag \in {"Type4", "Type5"} -> 32
      [] h.header_type.tag = "Type6" -> 28 + h.header_type.completion_status_size * 4


(***************************************************************************)
(* Regions (region.rs)                                                     *)
(***************************************************************************)

\* Context::default()
NoContext == [die_id |-> None, socket_id |-> None]

\* a header error returned whatever was collected
OnHeaderErrorAlways(err, records) == err

\* the Err(err) arm of Region::from_slice: the error if no record was
\* collected, else the records collected
OnHeaderError(err, records) ==
    IF records = <<>> THEN err ELSE Ok([records |-> records])

\* the loop, were a record that runs past the end of the bytes left out
RECURSIVE RegionLoopWholeOnly(_, _, _)
RegionLoopWholeOnly(input, cursor, records) ==
    IF cursor >= Len(input) THEN Ok([records |-> records])
    ELSE LET scan(parsed) ==
                 IF ~parsed.ok THEN OnHeaderError(parsed, records)
                 ELSE IF ~parsed.value.some THEN Ok([records |-> records])
                 ELSE LET header == parsed.value.value
                          record_size == RecordSizeOf(header)
                          limit == cursor + record_size
                      IN  IF record_size = 0 \/ limit > Len(input)
                          THEN Ok([records |-> records])
                          ELSE RegionLoopWholeOnly(input, cursor + record_size,
                                   Append(records,
                                          [header |-> header,
                                           data |-> Slice(input, cursor, limit),
                                           context |-> NoContext]))
         IN  CHOOSE r \in {scan(parsed) :
                             parsed \in {HeaderFromSlice(
                                            Slice(input, cursor, Len(input)))}} : TRUE

\* the while loop of Region::from_slice, from the cursor on
RECURSIVE RegionLoop(_, _, _)
RegionLoop(input, cursor, records) ==
    IF cursor >= Len(input) THEN Ok([records |-> records])
    ELSE LET scan(parsed) ==
                 IF ~parsed.ok THEN OnHeaderError(parsed, records)
                 ELSE IF ~parsed.value.some THEN Ok([records |-> records])
                 ELSE LET header == parsed.value.value
                          record_size == RecordSizeOf(header)
                          limit == cursor + record_size
                      IN  IF record_size = 0 THEN Ok([records |-> records])
                          ELSE RegionLoop(input, cursor + record_size,
                                   Append(records,
                                          [header |-> header,
                                           data |-> Slice(input, cursor,
                                                          Min(limit, Len(input))),
                                           context |-> NoContext]))
         IN  CHOOSE r \in {scan(parsed) :
                             parsed \in {HeaderFromSlice(
                                            Slice(input, cursor, Len(input)))}} : TRUE

\* Region::from_slice
RegionFromSlice(input) == RegionLoop(input, 0, <<>>)

\* Region::to_bytes
RegionToBytes(region) ==
    Concat([i \in 1..Len(region.records) |-> region.records[i].data])

\* a panic of the thread: an index out of range, an overflow
Panic(what) == [ok |-> FALSE, err |-> what]

\* Record::payload: data[begin..end], begin the header size and end the
\* length of the data, less 4 if cldic is set; the subtraction overflows on
\* less than 4 bytes of data and the slicing panics on begin > end
Payload(record) ==
    LET begin == HeaderSize(record.header)
        len == Len(record.data)
    IN  IF record.header.version.cldic /\ len < 4
        THEN Panic("subtract with overflow, or range end index out of range")
        ELSE LET end == IF record.header.version.cldic THEN len - 4 ELSE len
             IN  IF begin > end THEN Panic("slice index starts after its end")
                 ELSE Ok(Slice(record.data, begin, end))

\* Region::set_socket_and_die_ids: the ids become the context of every record
SetSocketAndDieIds(region, socket_id, die_id) ==
    [records |-> [i \in 1..Len(region.records) |->
                     [region.records[i] EXCEPT
                         !.context = [die_id |-> Some(die_id),
                                      socket_id |-> Some(socket_id)]]]]

(***************************************************************************)
(* Firmware error records and CPER sections (cper.rs, cper/fer.rs)         *)
(***************************************************************************)

\* 81212a96-09ed-4996-9471-8d729c8e69ed, as Guid::to_bytes
FW_ERROR_RECORD_GUID ==
    <<150, 42, 33, 129, 237, 9, 150, 73, 148, 113, 141, 114, 156, 142, 105, 237>>

\* 8f87f311-c998-4d9e-a0c4-6065518c4f6d, as Guid::to_bytes
RECORD_ID_CRASHLOG ==
    <<17, 243, 135, 143, 152, 201, 158, 77, 160, 196, 96, 101, 81, 140, 79, 109>>

GuidZero == Zeros(16)

RECORD_HEADER_SIZE == 128
SECTION_DESCRIPTOR_SIZE == 72

\* FirmwareErrorRecordHeader::from_slice
FerHeaderFromSlice(s) ==
    IF Len(s) < 16 THEN None
    ELSE LET revision == s[2]
         IN  IF revision >= 2 /\ Len(s) < 32 THEN None
             ELSE Some([error_type |-> s[1],
                        revision |-> revision,
                        reserved |-> Slice(s, 2, 8),
                        record_identifier |-> Slice(s, 8, 16),
                        guid |-> IF revision >= 2 THEN Slice(s, 16, 32) ELSE GuidZero])

\* FirmwareErrorRecordHeader::size
FerHeaderSize(header) == IF header.revision >= 2 THEN 32 ELSE 16

\* FirmwareErrorRecordHeader::to_bytes
FerHeaderToBytes(header) ==
    <<header.error_type, header.revision>> \o header.reserved
        \o header.record_identifier \o header.guid

\* FirmwareErrorRecord::from_slice
FerFromSlice(s) ==
    LET header == FerHeaderFromSlice(s)
    IN  IF ~header.some THEN None
        ELSE LET payload == GetFrom(s, FerHeaderSize(header.value))
             IN  IF ~payload.some THEN None
                 ELSE Some([header |-> header.value, payload |-> payload.value])

\* FirmwareErrorRecord::to_bytes
FerToBytes(fer) == FerHeaderToBytes(fer.header) \o fer.payload

\* CperSection::from_slice
CperSectionFromSlice(guid, s) ==
    IF guid = FW_ERROR_RECORD_GUID
    THEN LET fer == FerFromSlice(s)
         IN  IF fer.some
             THEN Some([tag |-> "FirmwareErrorRecord", fer |-> fer.value])
             ELSE None
    ELSE Some([tag |-> "Unknown", data |-> s])

\* CperSection::to_bytes
CperSectionToBytes(section) ==
    IF section.tag = "FirmwareErrorRecord" THEN FerToBytes(section.fer)
    ELSE section.data

\* Region::from_cper_section
RegionFromCperSection(section) ==
    IF section.tag = "FirmwareErrorRecord"
    THEN IF section.fer.header.guid = RECORD_ID_CRASHLOG
         THEN LET region == RegionFromSlice(section.fer.payload)
              IN  IF region.ok THEN Some(region.value) ELSE None
         ELSE None
    ELSE None

\* CperHeader::from_slice on the first 128 bytes: the section count is all
\* that Cper::from_slice reads of it
CperHeaderFromSlice(s) ==
    IF StartsWith(s, <<67, 80, 69, 82>>) /\ Len(s) >= RECORD_HEADER_SIZE
    THEN Some([section_count |-> LeU16(Slice(s, 10, 12))])
    ELSE None

\* CperSectionDescriptor::from_slice
CperSectionDescriptorFromSlice(s) ==
    IF Len(s) < SECTION_DESCRIPTOR_SIZE THEN None
    ELSE Some([section_offset |-> LeU32(Slice(s, 0, 4)),
               section_length |-> LeU32(Slice(s, 4, 8)),
               section_type |-> Slice(s, 16, 32)])

\* the closure of Cper::from_slice: section i of the record
CperSectionAt(slice, i) ==
    LET index == RECORD_HEADER_SIZE + i * SECTION_DESCRIPTOR_SIZE
        rest == GetFrom(slice, index)
    IN  IF ~rest.some THEN None
        ELSE LET descriptor == CperSectionDescriptorFromSlice(rest.value)
             IN  IF ~descriptor.some THEN None
                 ELSE LET offset == descriptor.value.section_offset
                          end_offset == offset + descriptor.value.section_length
                          body == Get(slice, offset, end_offset)
                      IN  IF ~body.some THEN None
                          ELSE LET section == CperSectionFromSlice(
                                                  descriptor.value.section_type,
                                                  body.value)
                               IN  IF ~section.some THEN None
                                   ELSE Some([descriptor |-> descriptor.value,
                                              section |-> section.value])

\* Cper::from_slice
CperFromSlice(slice) ==
    LET head == Get(slice, 0, RECORD_HEADER_SIZE)
    IN  IF ~head.some THEN None
        ELSE LET record_header == CperHeaderFromSlice(head.value)
             IN  IF ~record_header.some THEN None
                 ELSE LET sections ==
                              [i \in 1..record_header.value.section_count |->
                                  CperSectionAt(slice, i - 1)]
                      IN  IF \E i \in 1..Len(sections) : ~sections[i].some THEN None
                          ELSE Some([record_header |-> record_header.value,
                                     sections |-> [i \in 1..Len(sections) |->
                                                      sections[i].value]])


(***************************************************************************)
(* Boot error records (bert.rs, bert/berr.rs)                              *)
(***************************************************************************)

\* mem::size_of of the packed structures
BertSize == 48
StatusBlockSize == 20
DataEntryHeaderSize == 72

\* b"BERT" and b"BERR"
BertSignature == <<66, 69, 82, 84>>
BerrSignature == <<66, 69, 82, 82>>

\* GenericErrorStatusBlock::from_slice
StatusBlockFromSlice(s) ==
    IF Len(s) < StatusBlockSize THEN None
    ELSE Some([block_status |-> Slice(s, 0, 4),
               raw_data_offset |-> Slice(s, 4, 8),
               raw_data_length |-> Slice(s, 8, 12),
               data_length |-> LeU32(Slice(s, 12, 16)),
               error_severity |-> Slice(s, 16, 20)])

\* GenericErrorStatusBlock::to_bytes
StatusBlockToBytes(header) ==
    header.block_status \o header.raw_data_offset \o header.raw_data_length
        \o ToLeU32(header.data_length) \o header.error_severity

\* GenericErrorStatusBlock::default()
StatusBlockDefault ==
    [block_status |-> Zeros(4), raw_data_offset |-> Zeros(4),
     raw_data_length |-> Zeros(4), data_length |-> 0, error_severity |-> Zeros(4)]

\* GenericErrorDataEntryHeader::from_slice
DataEntryHeaderFromSlice(s) ==
    IF Len(s) < 64 THEN None
    ELSE LET revision == LeU16(Slice(s, 20, 22))
         IN  IF revision >= 768 /\ Len(s) < 72 THEN None
             ELSE Some([section |-> Slice(s, 0, 16),
                        error_severity |-> Slice(s, 16, 20),
                        revision |-> revision,
                        validation_bits |-> s[23],
                        flags |-> s[24],
                        error_data_length |-> LeU32(Slice(s, 24, 28)),
                        fru_id |-> Slice(s, 28, 44),
                        fru_text |-> Slice(s, 44, 64),
                        timestamp |-> IF revision >= 768 THEN Slice(s, 64, 72)
                                      ELSE Zeros(8)])

\* GenericErrorDataEntryHeader::size
DataEntryHeaderSizeOf(header) ==
    IF header.revision >= 768 THEN DataEntryHeaderSize ELSE DataEntryHeaderSize - 8

\* GenericErrorDataEntryHeader::to_bytes
DataEntryHeaderToBytes(header) ==
    header.section \o header.error_severity \o ToLeU16(header.revision)
        \o <<header.validation_bits, header.flags>>
        \o ToLeU32(header.error_data_length) \o header.fru_id \o header.fru_text
        \o (IF header.revision >= 768 THEN header.timestamp ELSE <<>>)

\* GenericErrorDataEntryHeader::default()
DataEntryHeaderDefault ==
    [section |-> GuidZero, error_severity |-> Zeros(4), revision |-> 0,
     validation_bits |-> 0, flags |-> 0, error_data_length |-> 0,
     fru_id |-> Zeros(16), fru_text |-> Zeros(20), timestamp |-> Zeros(8)]

\* GenericErrorDataEntry::from_slice
DataEntryFromSlice(s) ==
    LET header == DataEntryHeaderFromSlice(s)
    IN  IF ~header.some THEN None
        ELSE LET size == DataEntryHeaderSizeOf(header.value)
                 body == Get(s, size, size + header.value.error_data_length)
             IN  IF ~body.some THEN None
                 ELSE LET cper_section ==
                              CperSectionFromSlice(header.value.section, body.value)
                      IN  IF ~cper_section.some THEN None
                          ELSE Some([header |-> header.value,
                                     cper_section |-> cper_section.value])

\* GenericErrorDataEntry::to_bytes
DataEntryToBytes(entry) ==
    LET cper_section == CperSectionToBytes(entry.cper_section)
    IN  DataEntryHeaderToBytes([entry.header EXCEPT
                                   !.error_data_length = Len(cper_section)])
            \o cper_section

\* GenericErrorDataEntry::size
DataEntrySize(entry) ==
    DataEntryHeaderSizeOf(entry.header) + entry.header.error_data_length

\* the while let loop of Berr::from_slice: the entries, or None when the
\* window ptr..end leaves the slice
RECURSIVE BerrLoop(_, _, _, _)
BerrLoop(s, ptr, end, entries) ==
    LET window == Get(s, ptr, end)
    IN  IF ~window.some THEN None
        ELSE LET next(entry) ==
                     IF ~entry.some THEN Some(entries)
                     ELSE IF ptr + DataEntrySize(entry.value) >= end
                     THEN Some(Append(entries, entry.value))
                     ELSE BerrLoop(s, ptr + DataEntrySize(entry.value), end,
                                   Append(entries, entry.value))
             IN  CHOOSE r \in {next(entry) :
                                 entry \in {DataEntryFromSlice(window.value)}} : TRUE

\* Berr::from_slice
BerrFromSlice(s) ==
    LET header == StatusBlockFromSlice(s)
    IN  IF ~header.some THEN None
        ELSE LET entries == BerrLoop(s, StatusBlockSize,
                                     StatusBlockSize + header.value.data_length, <<>>)
             IN  IF ~entries.some THEN None
                 ELSE Some([header |-> header.value, entries |-> entries.value])

\* Berr::from_bert_file
BerrFromBertFile(s) ==
    IF StartsWith(s, BerrSignature)
    THEN BerrFromSlice(Slice(s, 4, Len(s)))
    ELSE IF StartsWith(s, BertSignature)
    THEN LET rest == GetFrom(s, BertSize)
         IN  IF rest.some THEN BerrFromSlice(rest.value) ELSE None
    ELSE None

\* Berr::to_bytes
BerrToBytes(berr) ==
    LET payload == Concat([i \in 1..Len(berr.entries) |->
                              DataEntryToBytes(berr.entries[i])])
    IN  StatusBlockToBytes([berr.header EXCEPT !.data_length = Len(payload)])
            \o payload

\* Bert::to_bytes of Bert { region: 0, region_length, ..Bert::dummy() }
BertToBytes(region_length) ==
    BertSignature \o Zeros(4) \o <<0, 0>> \o Zeros(6) \o Zeros(8) \o Zeros(4)
        \o Zeros(4) \o Zeros(4) \o ToLeU32(region_length) \o Zeros(8)

\* the entry Berr::from_crashlog makes of a region
DataEntryOfRegion(region) ==
    [header |-> [DataEntryHeaderDefault EXCEPT
                    !.section = FW_ERROR_RECORD_GUID, !.revision = 768],
     cper_section |->
        [tag |-> "FirmwareErrorRecord",
         fer |-> [header |-> [error_type |-> 2, revision |-> 2,
                              reserved |-> Zeros(6),
                              record_identifier |-> Zeros(8),
                              guid |-> RECORD_ID_CRASHLOG],
                  payload |-> RegionToBytes(region)]]]

\* Berr::from_crashlog
BerrFromCrashlog(c) ==
    [header |-> StatusBlockDefault,
     entries |-> [i \in 1..Len(c.regions) |-> DataEntryOfRegion(c.regions[i])]]

(***************************************************************************)
(* CrashLog (crashlog.rs)                                                  *)
(***************************************************************************)

\* the Somes of a sequence of Options, in order
Somes(opts) ==
    LET kept == SelectSeq(opts, LAMBDA o : o.some)
    IN  [i \in 1..Len(kept) |-> kept[i].value]

\* the for loop of from_regions with an empty region kept for a BOX record
\* whose payload does not parse
BoxRegionKeepsInvalid(record) ==
    IF record.header.version.record_type # BOX THEN None
    ELSE LET payload == GetFrom(record.data, HeaderSize(record.header))
         IN  IF ~payload.some THEN None
             ELSE LET region == RegionFromSlice(payload.value)
                  IN  IF ~region.ok THEN Some([records |-> <<>>])
                      ELSE IF record.header.header_type.tag = "Type6"
                      THEN Some(SetSocketAndDieIds(region.value,
                                    record.header.header_type.socket_id,
                                    record.header.header_type.die_id))
                      ELSE Some(region.value)

\* what the for loop of from_regions finds in one record: the region of a
\* BOX record whose payload parses, under the ids of a Type6 header
BoxRegion(record) ==
    IF record.header.version.record_type # BOX THEN None
    ELSE LET payload == GetFrom(record.data, HeaderSize(record.header))
         IN  IF ~payload.some THEN None
             ELSE LET region == RegionFromSlice(payload.value)
                  IN  IF ~region.ok THEN None
                      ELSE IF record.header.header_type.tag = "Type6"
                      THEN Some(SetSocketAndDieIds(region.value,
                                    record.header.header_type.socket_id,
                                    record.header.header_type.die_id))
                      ELSE Some(region.value)

\* the regions one pass of the for loop pushes to the front of the queue:
\* the one pushed last comes first
PushedFront(region) ==
    Reverse(Somes([i \in 1..Len(region.records) |-> BoxRegion(region.records[i])]))

\* the loop of from_regions with the regions found put at the back of the
\* queue
RECURSIVE FromRegionsLoopAtBack(_, _)
FromRegionsLoopAtBack(queue, regions) ==
    IF queue = <<>> THEN regions
    ELSE CHOOSE r \in {FromRegionsLoopAtBack(Tail(queue) \o pushed,
                                             Append(regions, Head(queue))) :
                          pushed \in {PushedFront(Head(queue))}} : TRUE

\* the while let loop of from_regions
RECURSIVE FromRegionsLoop(_, _)
FromRegionsLoop(queue, regions) ==
    IF queue = <<>> THEN regions
    ELSE CHOOSE r \in {FromRegionsLoop(pushed \o Tail(queue),
                                       Append(regions, Head(queue))) :
                          pushed \in {PushedFront(Head(queue))}} : TRUE

\* CrashLog::from_regions
FromRegions(regions) ==
    LET found == FromRegionsLoop(regions, <<>>)
    IN  IF found = <<>> THEN Err("InvalidCrashLog") ELSE Ok([regions |-> found])

\* CrashLog::from_berr
FromBerr(berr) ==
    FromRegions(Somes([i \in 1..Len(berr.entries) |->
                          RegionFromCperSection(berr.entries[i].cper_section)]))

\* CrashLog::from_cper
FromCper(cper) ==
    LET regions == Somes([i \in 1..Len(cper.sections) |->
                             RegionFromCperSection(cper.sections[i].section)])
    IN  IF regions = <<>> THEN Err("NoCrashLogFound") ELSE FromRegions(regions)

\* from_slice that goes on to the next format when a container holds no
\* Crash Log
FromSliceFallingBack(s) ==
    LET berr == BerrFromBertFile(s)
        cper == CperFromSlice(s)
        region == RegionFromSlice(s)
    IN  IF berr.some /\ FromBerr(berr.value).ok THEN FromBerr(berr.value)
        ELSE IF cper.some /\ FromCper(cper.value).ok THEN FromCper(cper.value)
        ELSE IF region.ok THEN FromRegions(<<region.value>>)
        ELSE region

\* CrashLog::from_slice
FromSlice(s) ==
    LET berr == BerrFromBertFile(s)
        cper == CperFromSlice(s)
        region == RegionFromSlice(s)
    IN  IF berr.some THEN FromBerr(berr.value)
        ELSE IF cper.some THEN FromCper(cper.value)
        ELSE IF region.ok THEN FromRegions(<<region.value>>)
        ELSE region

\* CrashLog::to_bytes
ToBytes(c) ==
    LET berr == BerrToBytes(BerrFromCrashlog(c))
    IN  BertToBytes(Len(berr)) \o berr


(***************************************************************************)
(* Parsing a blob, exporting it and parsing the export                     *)
(***************************************************************************)

\* a record under a Type1 header: version, record size in units of the
\* granularity of the record type, no extended section, then the payload
RecordType1(record_type, payload) ==
    VersionBytes([revision |-> 1, header_type |-> 1, product_id |-> 0,
                  record_type |-> record_type, cldic |-> FALSE,
                  consumed |-> FALSE])
        \o ToLeU16((8 + Len(payload))
                       \div (IF record_type \in {ECORE, PCORE} THEN 1 ELSE 4))
        \o ToLeU16(0) \o payload

\* a record under a Type6 header with no completion status dword
RecordType6(record_type, socket_id, die_id, payload) ==
    VersionBytes([revision |-> 1, header_type |-> 6, product_id |-> 0,
                  record_type |-> record_type, cldic |-> FALSE,
                  consumed |-> FALSE])
        \o ToLeU16((28 + Len(payload)) \div 4) \o ToLeU16(0)
        \o Zeros(8) \o Zeros(4) \o Zeros(4)
        \o <<die_id, socket_id>> \o ToLeU16(0) \o payload

McaRecord(b) == RecordType1(MCA, <<b, 0, 0, 0>>)

\* regions made of whole records only
PlainRegions ==
    {McaRecord(1),
     McaRecord(1) \o McaRecord(2),
     RecordType1(ECORE, <<7, 8>>),
     RecordType6(MCA, 1, 2, <<3, 0, 0, 0>>),
     McaRecord(1) \o Zeros(4)}

\* regions with a BOX record that holds a region
BoxRegions ==
    {RecordType1(BOX, McaRecord(1)),
     McaRecord(2) \o RecordType1(BOX, McaRecord(1)),
     RecordType1(BOX, RecordType1(BOX, McaRecord(1))),
     RecordType6(BOX, 1, 2, McaRecord(1))}

\* regions that end early or do not start with a record
BrokenRegions ==
    {SubSeq(McaRecord(1) \o McaRecord(2), 1, 20),
     <<>>,
     <<1, 7, 0, 62, 3, 0, 0, 0, 0, 0, 0, 0>>,
     <<1, 2, 0, 62, 2, 0, 0, 0>> \o Zeros(16),
     RecordType1(BOX, <<>>)}

\* the firmware error record entry of a boot error record, around a payload
EntryOf(section, revision, fer_revision, guid, payload) ==
    [header |-> [DataEntryHeaderDefault EXCEPT
                    !.section = section, !.revision = revision],
     cper_section |->
        IF section = FW_ERROR_RECORD_GUID
        THEN [tag |-> "FirmwareErrorRecord",
              fer |-> [header |-> [error_type |-> 2, revision |-> fer_revision,
                                   reserved |-> Zeros(6),
                                   record_identifier |-> Zeros(8),
                                   guid |-> guid],
                       payload |-> payload]]
        ELSE [tag |-> "Unknown", data |-> payload]]

CrashLogEntry(payload) ==
    EntryOf(FW_ERROR_RECORD_GUID, 768, 2, RECORD_ID_CRASHLOG, payload)

\* a boot error region, after the BERR signature or after a BERT table
BerrBlob(entries) ==
    BerrSignature \o BerrToBytes([header |-> StatusBlockDefault, entries |-> entries])

BertBlob(entries) ==
    LET berr == BerrToBytes([header |-> StatusBlockDefault, entries |-> entries])
    IN  BertToBytes(Len(berr)) \o berr

\* most entries of a blob
MaxEntries == 2

EntriesOf(regions) ==
    UNION {[1..n -> {CrashLogEntry(r) : r \in regions}] : n \in 1..MaxEntries}

\* the blobs whose entries are Crash Log regions made of whole records
ValidBlobs ==
    {BerrBlob(e) : e \in EntriesOf(PlainRegions \cup BoxRegions)}
        \cup {BertBlob(e) : e \in EntriesOf(PlainRegions \cup BoxRegions)}

\* a CPER record with one section
CperBlob(section_type, body) ==
    <<67, 80, 69, 82>> \o Zeros(6) \o ToLeU16(1) \o Zeros(116)
        \o ToLeU32(RECORD_HEADER_SIZE + SECTION_DESCRIPTOR_SIZE)
        \o ToLeU32(Len(body)) \o Zeros(8) \o section_type \o Zeros(40)
        \o body

\* blobs in the other formats, and boot error records with other entries
OtherBlobs ==
    {BerrBlob(<<CrashLogEntry(r)>>) : r \in BrokenRegions}
        \cup {BerrBlob(<<EntryOf(FW_ERROR_RECORD_GUID, 512, 2, RECORD_ID_CRASHLOG,
                                 McaRecord(1))>>),
              BerrBlob(<<EntryOf(GuidZero, 768, 2, GuidZero, McaRecord(1)),
                         CrashLogEntry(McaRecord(2))>>),
              BerrBlob(<<EntryOf(FW_ERROR_RECORD_GUID, 768, 1, GuidZero,
                                 McaRecord(1))>>),
              BerrBlob(<<>>),
              SubSeq(BertBlob(<<CrashLogEntry(McaRecord(1))>>), 1, 60),
              CperBlob(FW_ERROR_RECORD_GUID,
                       FerToBytes(CrashLogEntry(McaRecord(1)).cper_section.fer)),
              CperBlob(GuidZero, McaRecord(1)),
              McaRecord(1) \o RecordType1(BOX, McaRecord(2)),
              <<1, 7, 0, 62, 3, 0, 0, 0, 0, 0, 0, 0>>}

\* regions with BOX records that hold no region: a BOX record shorter than
\* its header and two more bytes, a BOX record around a header of an unknown
\* type, the same before a BOX record that holds a region, inside one, and
\* a BOX record under a Type6 header it is too short for; and a region with
\* two BOX records that hold a region each
BadBoxRegions ==
    {<<0, 0, 0, 61, 1, 0, 0, 0, 0, 10>>,
     RecordType1(BOX, <<1, 7, 0, 62, 3, 0, 0, 0>>),
     RecordType1(BOX, <<1, 7, 0, 62, 3, 0, 0, 0>>) \o RecordType1(BOX, McaRecord(1)),
     RecordType1(BOX, RecordType1(BOX, <<1, 7, 0, 62, 3, 0, 0, 0>>)),
     <<1, 6, 0, 61, 2, 0, 0, 0>> \o Zeros(16) \o <<2, 1, 0, 0>>,
     RecordType1(BOX, McaRecord(1)) \o RecordType1(BOX, McaRecord(2))}

BadBoxBlobs ==
    {BerrBlob(<<CrashLogEntry(r)>>) : r \in BadBoxRegions}
        \cup {BerrBlob(<<CrashLogEntry(r), CrashLogEntry(McaRecord(2))>>) :
                 r \in BadBoxRegions}
        \cup BadBoxRegions

\* a boot error region without entries behind the BERR signature, whose 40
\* bytes also read as one record
SniffBlobs ==
    {BerrSignature \o <<10, 0, 0, 0>> \o Zeros(32)}

\* regions with a BOX record under a Type6 header: around two records,
\* around a BOX record under a Type1 header, and around a BOX record under
\* a Type6 header of another die and socket
DeepBoxRegions ==
    {RecordType6(BOX, 1, 2, McaRecord(1) \o McaRecord(2)),
     RecordType6(BOX, 1, 2, RecordType1(BOX, McaRecord(1))),
     RecordType6(BOX, 1, 2, RecordType6(BOX, 3, 4, McaRecord(1)))}

DeepBoxBlobs ==
    {BerrBlob(<<CrashLogEntry(r), CrashLogEntry(McaRecord(2))>>) : r \in DeepBoxRegions}
        \cup DeepBoxRegions

Blobs == ValidBlobs \cup OtherBlobs \cup BadBoxBlobs \cup SniffBlobs \cup DeepBoxBlobs

NotParsed == [ok |-> FALSE, err |-> "not parsed"]

InitCrashLog ==
    /\ IdleMerge
    /\ IdleBack
    /\ IdleWork
    /\ IdleCollateral
    /\ IdleCsv
    /\ data = <<>>
    /\ hdr = [tag |-> "none"]
    /\ boff = 0
    /\ bsize = 0
    /\ bres = None
    /\ blob \in Blobs
    /\ crashlog = NotParsed
    /\ bytes = <<>>
    /\ reparsed = NotParsed
    /\ IdleParse
    /\ op = "init"

\* CrashLog::from_slice(blob)
DoFromSlice ==
    /\ op = "init"
    /\ crashlog' = FromSlice(blob)
    /\ op' = "from_slice"
    /\ UNCHANGED <<blob, bytes, reparsed, data, hdr, bitVars, csvVars, nodeVars,
                 parseVars, cmVars, workVars, backVars>>

\* crashlog.to_bytes()
DoToBytes ==
    /\ op = "from_slice"
    /\ crashlog.ok
    /\ bytes' = ToBytes(crashlog.value)
    /\ op' = "to_bytes"
    /\ UNCHANGED <<blob, crashlog, reparsed, data, hdr, bitVars, csvVars, nodeVars,
                 parseVars, cmVars, workVars, backVars>>

\* CrashLog::from_slice(bytes)
DoReparse ==
    /\ op = "to_bytes"
    /\ reparsed' = FromSlice(bytes)
    /\ op' = "reparsed"
    /\ UNCHANGED <<blob, crashlog, bytes, data, hdr, bitVars, csvVars, nodeVars,
                 parseVars, cmVars, workVars, backVars>>

NextCrashLog == DoFromSlice \/ DoToBytes \/ DoReparse

SpecCrashLog == InitCrashLog /\ [][NextCrashLog]_vars

(***************************************************************************)
(* Properties of the round trip                                            *)
(***************************************************************************)

\* the record byte contents of a CrashLog, region by region
RecordBytes(c) ==
    [i \in 1..Len(c.regions) |->
        [j \in 1..Len(c.regions[i].records) |-> c.regions[i].records[j].data]]

\* C1: for a CrashLog obtained by from_slice from a valid BERT/BERR blob,
\* whatever record types (BOX included) its regions hold, parsing its
\* to_bytes() succeeds and yields as many regions, with the same record
\* bytes region by region in order.
C1_RoundTrip ==
    (op = "reparsed" /\ blob \in ValidBlobs) =>
        /\ reparsed.ok
        /\ Len(reparsed.value.regions) = Len(crashlog.value.regions)
        /\ RecordBytes(reparsed.value) = RecordBytes(crashlog.value)

\* the blob of one entry whose region is one BOX record around an MCA record
BoxBlob == BertBlob(<<CrashLogEntry(RecordType1(BOX, McaRecord(1)))>>)

\* the round trip of BoxBlob: two regions before, three after
C1_BoxRegionsGrow ==
    (op = "reparsed" /\ blob = BoxBlob) =>
        /\ Len(crashlog.value.regions) = 2
        /\ Len(reparsed.value.regions) = 3

\* without BOX records, the round trip keeps the regions and their bytes
C1_PlainRoundTrip ==
    (op = "reparsed" /\ blob \in {BerrBlob(e) : e \in EntriesOf(PlainRegions)}
                                    \cup {BertBlob(e) : e \in EntriesOf(PlainRegions)}) =>
        /\ reparsed.ok
        /\ RecordBytes(reparsed.value) = RecordBytes(crashlog.value)


\* the round trip of BoxBlob has been made
C1_BoxRoundTripMade == op = "reparsed" /\ blob = BoxBlob /\ reparsed.ok


(***************************************************************************)
(* Parsing one header (header.rs)                                          *)
(***************************************************************************)

\* most completion status dwords of the Type6 headers parsed
MaxStatusDwords == 2

\* the bytes of a header of the given type followed by a dword of payload:
\* version, sizes, then the fields of the type, the die and socket ids and
\* the completion status size where a Type6 header has them
HeaderBytes(header_type, record_type, product_id, record_size,
            extended_record_size, status_byte) ==
    VersionBytes([revision |-> 8, header_type |-> header_type,
                  product_id |-> product_id, record_type |-> record_type,
                  cldic |-> FALSE, consumed |-> FALSE])
        \o ToLeU16(record_size) \o ToLeU16(extended_record_size)
        \o <<1, 2, 3, 4, 5, 6, 7, 8>> \o <<9, 0, 0, 0>> \o <<10, 0, 0, 0>>
        \o <<2, 1, status_byte, 128>>
        \o [i \in 1..(4 * MaxStatusDwords + 4) |-> 16 + i]

\* record types and product ids on both sides of the granularity rule
TypeAndProduct ==
    {<<MCA, 122>>, <<ECORE, 122>>, <<PCORE, 112>>, <<PCORE, 113>>, <<PCORE, 122>>,
     <<BOX, 0>>}

\* record size and extended record size fields
SizeFields == {<<2, 0>>, <<3, 0>>, <<3, 1>>, <<5, 0>>, <<0, 0>>}

\* completion status sizes as encoded: bit 7 of the byte is not part of it
StatusBytes == (0..MaxStatusDwords) \cup {129}

FullHeaders ==
    {HeaderBytes(t, tp[1], tp[2], sz[1], sz[2], 0) :
        t \in 0..7, tp \in TypeAndProduct, sz \in SizeFields}
    \cup {HeaderBytes(6, MCA, 122, 2, 0, b) : b \in StatusBytes}

\* every prefix of the headers, and the termination markers
HeaderSlices ==
    {SubSeq(h, 1, k) : h \in FullHeaders, k \in 0..(28 + 4 * MaxStatusDwords + 4)}
    \cup {Zeros(4), DeadBeef, Zeros(8), DeadBeef \o Zeros(4), Zeros(3),
          <<239, 190, 173>>, <<0, 0, 0, 1>>}

InitHeader ==
    /\ IdleMerge
    /\ IdleBack
    /\ IdleWork
    /\ IdleCollateral
    /\ IdleCsv
    /\ data = <<>>
    /\ hdr = [tag |-> "none"]
    /\ boff = 0
    /\ bsize = 0
    /\ bres = None
    /\ blob = <<>>
    /\ crashlog = [ok |-> FALSE, err |-> "not parsed"]
    /\ bytes = <<>>
    /\ reparsed = [ok |-> FALSE, err |-> "not parsed"]
    /\ hslice \in HeaderSlices
    /\ hres = NotCalled
    /\ hsize = 0
    /\ rsize = 0
    /\ rbytes = <<>>
    /\ rres = NotCalled
    /\ rcut = NotCalled
    /\ rec = NoRecord
    /\ rec0 = NoRecord
    /\ sum = NotCalled
    /\ sum0 = NotCalled
    /\ op = "init"

\* Header::from_slice(hslice)
DoHeaderFromSlice ==
    /\ op = "init"
    /\ hres' = HeaderFromSlice(hslice)
    /\ op' = "from_slice"
    /\ UNCHANGED <<hslice, hsize, rsize, rbytes, rres, rcut, rec, rec0, sum, sum0>>
    /\ UNCHANGED <<data, hdr, bitVars, csvVars, nodeVars, clVars, backVars, workVars, cmVars>>

\* header.header_size()
DoHeaderSize ==
    /\ op = "from_slice"
    /\ hres.ok
    /\ hres.value.some
    /\ hsize' = HeaderSize(hres.value.value)
    /\ op' = "header_size"
    /\ UNCHANGED <<hslice, hres, rsize, rbytes, rres, rcut, rec, rec0, sum, sum0>>
    /\ UNCHANGED <<data, hdr, bitVars, csvVars, nodeVars, clVars, backVars, workVars, cmVars>>

\* header.record_size()
DoRecordSize ==
    /\ op = "header_size"
    /\ rsize' = RecordSizeOf(hres.value.value)
    /\ op' = "record_size"
    /\ UNCHANGED <<hslice, hres, hsize, rbytes, rres, rcut, rec, rec0, sum, sum0>>
    /\ UNCHANGED <<data, hdr, bitVars, csvVars, nodeVars, clVars, backVars, workVars, cmVars>>

NextHeader == DoHeaderFromSlice \/ DoHeaderSize \/ DoRecordSize

SpecHeader == InitHeader /\ [][NextHeader]_vars

(***************************************************************************)
(* Properties of Header::from_slice, header_size and record_size           *)
(***************************************************************************)

\* the slice begins with 0 or 0xdeadbeef, little-endian
BeginsWithMarker(s) ==
    Len(s) >= 4 /\ SubSeq(s, 1, 4) \in {<<0, 0, 0, 0>>, <<239, 190, 173, 222>>}

\* bits 8 to 11 of the version dword
HeaderTypeOf(s) == s[2] % 16

\* bits 0 to 6 of the completion status size field of a Type6 header
StatusDwordsOf(s) == s[27] % 128

\* the bytes a header of the type of the slice takes
BytesNeeded(s) ==
    CASE HeaderTypeOf(s) \in {0, 1} -> 8
      [] HeaderTypeOf(s) = 2 -> 24
      [] HeaderTypeOf(s) = 3 -> 28
      [] HeaderTypeOf(s) \in {4, 5} -> 32
      [] HeaderTypeOf(s) = 6 ->
            IF Len(s) < 28 THEN 28 ELSE 28 + 4 * StatusDwordsOf(s)
      [] OTHER -> 8

InvalidHeader == [ok |-> FALSE, err |-> "InvalidHeader"]

\* a slice of 8 bytes or more whose header, of type 2 to 6, is cut short
TailTruncated(s) ==
    /\ ~BeginsWithMarker(s)
    /\ Len(s) >= 8
    /\ HeaderTypeOf(s) \in 2..6
    /\ Len(s) < BytesNeeded(s)

\* C11: Header::from_slice returns Err(InvalidHeader) for every slice that
\* does not begin with a termination marker and has fewer than 8 bytes, and
\* for every slice whose header of type 2 to 6 needs more bytes than there
\* are (28 + 4*n for Type6); it returns Ok(None) only when the first 4
\* bytes are 0 or 0xDEADBEEF.
C11_HeaderErrors ==
    op = "from_slice" =>
        /\ (~BeginsWithMarker(hslice) /\ Len(hslice) < 8) => hres = InvalidHeader
        /\ TailTruncated(hslice) => hres = InvalidHeader
        /\ (hres.ok /\ ~hres.value.some) => BeginsWithMarker(hslice)

\* a slice of fewer than 4 bytes has been parsed
C11_ShortSliceParsed == op = "from_slice" /\ Len(hslice) < 4

\* what Header::from_slice does instead: from 4 bytes on the errors are as
\* above, and a slice of fewer than 4 bytes gives Ok(None)
C11_HeaderErrorsFromFourBytes ==
    op = "from_slice" =>
        /\ (~BeginsWithMarker(hslice) /\ Len(hslice) \in 4..7) => hres = InvalidHeader
        /\ TailTruncated(hslice) => hres = InvalidHeader
        /\ (hres.ok /\ ~hres.value.some) <=>
               (BeginsWithMarker(hslice) \/ Len(hslice) < 4)


\* C12: header_size() is 8 for header types 0 and 1, 24 for type 2, 28 for
\* type 3, 32 for types 4 and 5, and 28 + 4*n for type 6, n the completion
\* status size decoded from the header, between 0 and 127.
C12_HeaderSize ==
    op = "header_size" =>
        /\ HeaderTypeOf(hslice) \in {0, 1} => hsize = 8
        /\ HeaderTypeOf(hslice) = 2 => hsize = 24
        /\ HeaderTypeOf(hslice) = 3 => hsize = 28
        /\ HeaderTypeOf(hslice) \in {4, 5} => hsize = 32
        /\ HeaderTypeOf(hslice) = 6 =>
              /\ hres.value.value.header_type.completion_status_size
                     = StatusDwordsOf(hslice)
              /\ StatusDwordsOf(hslice) \in 0..127
              /\ hsize = 28 + 4 * StatusDwordsOf(hslice)
        /\ HeaderTypeOf(hslice) \in 0..6

\* the size of a Type6 header with completion status dwords has been taken
C12_Witness ==
    /\ op = "header_size"
    /\ HeaderTypeOf(hslice) = 6
    /\ hslice[27] = 129
    /\ hsize = 32


\* bits 24 to 29 and bits 12 to 23 of the version dword
RecordTypeOf(s) == s[4] % 64
ProductIdOf(s) == (s[2] \div 16) + 16 * s[3]

\* the record size and extended record size fields, added
SizeFieldsOf(s) == s[5] + 256 * s[6] + s[7] + 256 * s[8]

\* 1 for ECORE and for PCORE with a product id below 0x71, else 4
GranularityOf(s) ==
    IF RecordTypeOf(s) = 6 \/ (RecordTypeOf(s) = 4 /\ ProductIdOf(s) < 113)
    THEN 1 ELSE 4

\* C13: record_size() = (record_size field + extended_record_size field) * g,
\* g = 1 when the record type is ECORE, or PCORE with product_id < 0x71, and
\* g = 4 otherwise: MCA with field 2 gives 8, PCORE with product_id 0x7A and
\* field 3 gives 12, ECORE with field 5 gives 5.
C13_Granularity ==
    op = "record_size" =>
        /\ rsize = SizeFieldsOf(hslice) * GranularityOf(hslice)
        /\ (RecordTypeOf(hslice) = 62 /\ SizeFieldsOf(hslice) = 2) => rsize = 8
        /\ (RecordTypeOf(hslice) = 4 /\ ProductIdOf(hslice) = 122
                /\ SizeFieldsOf(hslice) = 3) => rsize = 12
        /\ (RecordTypeOf(hslice) = 6 /\ SizeFieldsOf(hslice) = 5) => rsize = 5

\* the size of a PCORE record of product 0x71 with an extended section has
\* been taken: its fields count dwords
C13_Witness ==
    /\ op = "record_size"
    /\ RecordTypeOf(hslice) = 4
    /\ ProductIdOf(hslice) = 113
    /\ SizeFieldsOf(hslice) = 4
    /\ rsize = 16


(***************************************************************************)
(* Parsing one region (region.rs)                                          *)
(***************************************************************************)

\* most pieces (records, markers, damaged headers) of the regions parsed
MaxPieces == 3

\* records that are whole and hold their header: an MCA record, an ECORE
\* record sized in bytes, an MCA record whose last dword is 0, and one whose
\* last dword is 0xdeadbeef
WholeRecords ==
    {McaRecord(1),
     RecordType1(ECORE, <<7, 8>>),
     RecordType1(MCA, Zeros(4)),
     RecordType1(MCA, DeadBeef)}

Markers == {Zeros(4), DeadBeef}

\* headers that do not parse wherever they stand: a header type above 6, and
\* a Type6 header that announces more completion status dwords than any
\* region here has bytes
BadHeaders ==
    {<<1, 7, 0, 62, 3, 0, 0, 0>>,
     SubSeq(HeaderBytes(6, MCA, 122, 9, 0, 127), 1, 28)}

\* pieces that parse or not depending on what follows them: a header cut
\* after 5 bytes, a record of size 0, a Type2 record shorter than its
\* header, a few bytes, a record with cldic set that is its header and
\* nothing else
OddPieces ==
    {<<1, 1, 0, 62, 3>>,
     <<1, 1, 0, 62, 0, 0, 0, 0>>,
     SubSeq(HeaderBytes(2, MCA, 122, 5, 0, 0), 1, 20),
     <<1, 1, 0>>,
     <<1, 1, 0, 126, 2, 0, 0, 0>>}

Pieces == WholeRecords \cup Markers \cup BadHeaders \cup OddPieces

SeqsOf(S, n) == UNION {[1..k -> S] : k \in 0..n}

RegionInputs == {Concat(ps) : ps \in SeqsOf(Pieces, MaxPieces)}

InitRegion ==
    /\ IdleMerge
    /\ IdleBack
    /\ IdleWork
    /\ IdleCollateral
    /\ IdleCsv
    /\ data = <<>>
    /\ hdr = [tag |-> "none"]
    /\ boff = 0
    /\ bsize = 0
    /\ bres = None
    /\ blob = <<>>
    /\ crashlog = [ok |-> FALSE, err |-> "not parsed"]
    /\ bytes = <<>>
    /\ reparsed = [ok |-> FALSE, err |-> "not parsed"]
    /\ hslice = <<>>
    /\ hres = NotCalled
    /\ hsize = 0
    /\ rsize = 0
    /\ rbytes \in RegionInputs
    /\ rres = NotCalled
    /\ rcut = NotCalled
    /\ rec = NoRecord
    /\ rec0 = NoRecord
    /\ sum = NotCalled
    /\ sum0 = NotCalled
    /\ op = "init"

\* Region::from_slice(rbytes)
DoRegionFromSlice ==
    /\ op = "init"
    /\ rres' = RegionFromSlice(rbytes)
    /\ op' = "from_slice"
    /\ UNCHANGED <<hslice, hres, hsize, rsize, rbytes, rcut, rec, rec0, sum, sum0>>
    /\ UNCHANGED <<data, hdr, bitVars, csvVars, nodeVars, clVars, backVars, workVars, cmVars>>

\* Region::from_slice(rbytes without its last 4 bytes)
DoRegionFromSliceCut ==
    /\ op = "from_slice"
    /\ Len(rbytes) >= 4
    /\ rcut' = RegionFromSlice(SubSeq(rbytes, 1, Len(rbytes) - 4))
    /\ op' = "cut"
    /\ UNCHANGED <<hslice, hres, hsize, rsize, rbytes, rres, rec, rec0, sum, sum0>>
    /\ UNCHANGED <<data, hdr, bitVars, csvVars, nodeVars, clVars, backVars, workVars, cmVars>>

\* region.to_bytes() of the region parsed
DoRegionToBytes ==
    /\ op = "from_slice"
    /\ rres.ok
    /\ rback' = RegionToBytes(rres.value)
    /\ op' = "to_bytes"
    /\ UNCHANGED <<rre, pidx, pres, parseVars>>
    /\ UNCHANGED <<data, hdr, bitVars, csvVars, nodeVars, clVars, workVars, cmVars>>

\* Region::from_slice(the bytes to_bytes gave)
DoRegionFromSliceAgain ==
    /\ op = "to_bytes"
    /\ rre' = RegionFromSlice(rback)
    /\ op' = "from_slice_again"
    /\ UNCHANGED <<rback, pidx, pres, parseVars>>
    /\ UNCHANGED <<data, hdr, bitVars, csvVars, nodeVars, clVars, workVars, cmVars>>

\* record.payload() of a record of the region parsed
DoPayload ==
    /\ op = "from_slice"
    /\ rres.ok
    /\ \E k \in 1..Len(rres.value.records) :
           /\ pidx' = k
           /\ pres' = Payload(rres.value.records[k])
    /\ op' = "payload"
    /\ UNCHANGED <<rback, rre, parseVars>>
    /\ UNCHANGED <<data, hdr, bitVars, csvVars, nodeVars, clVars, workVars, cmVars>>

NextRegion ==
    \/ DoRegionFromSlice
    \/ DoRegionFromSliceCut
    \/ DoRegionToBytes
    \/ DoRegionFromSliceAgain
    \/ DoPayload

SpecRegion == InitRegion /\ [][NextRegion]_vars


(***************************************************************************)
(* Properties of Region::from_slice                                        *)
(***************************************************************************)

\* the last 4 bytes are 0 or 0xdeadbeef, little-endian
EndsWithMarker(b) ==
    Len(b) >= 4 /\ SubSeq(b, Len(b) - 3, Len(b)) \in {<<0, 0, 0, 0>>, <<239, 190, 173, 222>>}

\* the data bytes of the records of a region, in order
DataOf(r) == [i \in 1..Len(r.records) |-> r.records[i].data]

\* C14, as stated: for any byte sequence ending in a 4-byte termination
\* marker, Region::from_slice of it and of it without its last 4 bytes give
\* the same outcome and the same records.
C14_MarkerIdempotenceAsStated ==
    (op = "cut" /\ EndsWithMarker(rbytes)) => rcut = rres

\* C14: for a byte sequence made of whole records, each holding its header,
\* and then a 4-byte termination marker, Region::from_slice of it and of it
\* without the marker give the same outcome and the same records (headers
\* and data bytes): these records.
C14_MarkerIdempotence ==
    op = "cut" =>
        \A ws \in SeqsOf(WholeRecords, MaxPieces - 1) :
            \A m \in {<<0, 0, 0, 0>>, <<239, 190, 173, 222>>} :
                rbytes = Concat(ws) \o m =>
                    /\ rres.ok
                    /\ rcut = rres
                    /\ DataOf(rres.value) = ws

\* two whole records, the second ending in a zero dword, and then the
\* marker 0xdeadbeef, have been parsed with and without the marker
C14_Witness ==
    /\ op = "cut"
    /\ rbytes = McaRecord(1) \o RecordType1(MCA, Zeros(4)) \o DeadBeef
    /\ Len(rres.value.records) = 2
    /\ rcut = rres


IsPrefix(p, b) == Len(p) <= Len(b) /\ SubSeq(b, 1, Len(p)) = p

\* the error Header::from_slice has for a header that does not parse: the
\* header type above 6, or the bytes missing
ErrorOf(g) ==
    IF g[2] % 16 > 6 THEN [ok |-> FALSE, err |-> "InvalidHeaderType"]
    ELSE [ok |-> FALSE, err |-> "InvalidHeader"]

\* C15: a header parse error met before any record was collected makes
\* Region::from_slice return that error; met after at least one record, it
\* stops the scan and Region::from_slice returns Ok with exactly the records
\* collected so far; a termination marker stops the scan without error.
C15_ErrorPolicy ==
    op = "from_slice" =>
        \A ws \in SeqsOf(WholeRecords, MaxPieces - 1) :
            /\ \A g \in BadHeaders \cup {<<1, 1, 0, 62, 3>>} :
                   (IsPrefix(Concat(ws) \o g, rbytes)
                        /\ (Len(g) < 8 => rbytes = Concat(ws) \o g)) =>
                       IF ws = <<>> THEN rres = ErrorOf(g)
                       ELSE rres.ok /\ DataOf(rres.value) = ws
            /\ \A m \in {<<0, 0, 0, 0>>, <<239, 190, 173, 222>>} :
                   IsPrefix(Concat(ws) \o m, rbytes) =>
                       rres.ok /\ DataOf(rres.value) = ws

\* a region of two records and then a header of an unknown type has been
\* parsed: the two records are the result
C15_Witness ==
    /\ op = "from_slice"
    /\ rbytes = McaRecord(1) \o RecordType1(ECORE, <<7, 8>>)
                    \o <<1, 7, 0, 62, 3, 0, 0, 0>>
    /\ rres.ok
    /\ Len(rres.value.records) = 2

\* C16: Region::from_slice called on an empty byte slice returns an error,
\* not a Region with zero records.
C16_EmptyIsError ==
    (op = "from_slice" /\ rbytes = <<>>) => ~rres.ok

\* the empty slice has been parsed: the result is a Region without records
C16_EmptyParsed ==
    op = "from_slice" /\ rbytes = <<>> /\ rres = Ok([records |-> <<>>])


(***************************************************************************)
(* Record::checksum (record.rs)                                            *)
(***************************************************************************)

\* addition of two u32, given as little-endian bytes, byte by byte
AddNoCarry(a, b) == [k \in 1..4 |-> (a[k] + b[k]) % 256]

\* u32::wrapping_add on little-endian bytes
WrappingAdd(a, b) ==
    LET c1 == (a[1] + b[1]) \div 256
        c2 == (a[2] + b[2] + c1) \div 256
        c3 == (a[3] + b[3] + c2) \div 256
    IN  <<(a[1] + b[1]) % 256, (a[2] + b[2] + c1) % 256,
          (a[3] + b[3] + c2) % 256, (a[4] + b[4] + c3) % 256>>

\* u32::from_le_bytes(dword_slice.try_into().unwrap_or([0; 4])), as bytes
DwordOf(chunk) == IF Len(chunk) = 4 THEN chunk ELSE Zeros(4)

\* slice::chunks(4): the last chunk holds what is left
Chunks(d) ==
    [i \in 1..((Len(d) + 3) \div 4) |-> SubSeq(d, 4 * i - 3, Min(4 * i, Len(d)))]

\* the fold of Record::checksum over the chunks
FoldChunks(d) ==
    LET chunks == Chunks(d)
        acc[i \in 0..Len(chunks)] ==
            IF i = 0 THEN Zeros(4) ELSE WrappingAdd(acc[i - 1], DwordOf(chunks[i]))
    IN  acc[Len(chunks)]

\* a checksum that looks at the low 24 bits of the sum
ChecksumOfLowBits(record) ==
    IF ~record.header.version.cldic THEN None
    ELSE Some(SubSeq(FoldChunks(record.data), 1, 3) = Zeros(3))

\* Record::checksum
Checksum(record) ==
    IF ~record.header.version.cldic THEN None
    ELSE Some(FoldChunks(record.data) = Zeros(4))

\* most payload dwords of the records summed
MaxPayloadDwords == 2

PayloadDwords == {<<1, 0, 0, 0>>, <<255, 255, 255, 255>>}

\* the two's complement of a u32, as bytes
Negated(a) == WrappingAdd([k \in 1..4 |-> 255 - a[k]], <<1, 0, 0, 0>>)

\* header and payload of a record of the given size, in units of the
\* granularity of its type
RecordBody(record_type, cldic, size, payload) ==
    VersionBytes([revision |-> 1, header_type |-> 1, product_id |-> 0,
                  record_type |-> record_type, cldic |-> cldic,
                  consumed |-> FALSE])
        \o ToLeU16(size) \o ToLeU16(0) \o Concat(payload)

\* records of dwords that end in the dword that brings their sum to 0, or in
\* another one; ECORE records, sized in bytes, with two more bytes
RecordDatas ==
    UNION {
        LET mca == RecordBody(MCA, cldic, 3 + Len(p), p)
            ecore == RecordBody(ECORE, cldic, 14 + 4 * Len(p), p)
        IN  {mca \o Negated(FoldChunks(mca)),
             mca \o <<1, 2, 3, 4>>,
             ecore \o Negated(FoldChunks(ecore)) \o <<7, 8>>,
             ecore \o <<1, 2, 3, 4>> \o <<7, 8>>}
        : cldic \in BOOLEAN, p \in SeqsOf(PayloadDwords, MaxPayloadDwords)}

\* the values a byte is changed to
OtherBytes(b) == {(b + 1) % 256, (b + 128) % 256, 255 - b} \ {b}

InitChecksum ==
    /\ IdleMerge
    /\ IdleBack
    /\ IdleWork
    /\ IdleCollateral
    /\ IdleCsv
    /\ data = <<>>
    /\ hdr = [tag |-> "none"]
    /\ boff = 0
    /\ bsize = 0
    /\ bres = None
    /\ blob = <<>>
    /\ crashlog = [ok |-> FALSE, err |-> "not parsed"]
    /\ bytes = <<>>
    /\ reparsed = [ok |-> FALSE, err |-> "not parsed"]
    /\ hslice = <<>>
    /\ hres = NotCalled
    /\ hsize = 0
    /\ rsize = 0
    /\ rbytes = <<>>
    /\ rres = NotCalled
    /\ rcut = NotCalled
    /\ rec \in {RegionFromSlice(d).value.records[1] : d \in RecordDatas}
    /\ rec0 = NoRecord
    /\ sum = NotCalled
    /\ sum0 = NotCalled
    /\ op = "init"

\* record.checksum()
DoChecksum ==
    /\ op \in {"init", "changed"}
    /\ sum' = Checksum(rec)
    /\ op' = IF op = "init" THEN "checksum" ELSE "rechecked"
    /\ UNCHANGED <<hslice, hres, hsize, rsize, rbytes, rres, rcut, rec, rec0, sum0>>
    /\ UNCHANGED <<data, hdr, bitVars, csvVars, nodeVars, clVars, backVars, workVars, cmVars>>

\* one byte of record.data takes another value
DoChangeByte ==
    /\ op = "checksum"
    /\ \E i \in 1..Len(rec.data) :
           \E v \in OtherBytes(rec.data[i]) :
               rec' = [rec EXCEPT !.data[i] = v]
    /\ rec0' = rec
    /\ sum0' = sum
    /\ op' = "changed"
    /\ UNCHANGED <<hslice, hres, hsize, rsize, rbytes, rres, rcut, sum>>
    /\ UNCHANGED <<data, hdr, bitVars, csvVars, nodeVars, clVars, backVars, workVars, cmVars>>

NextChecksum == DoChecksum \/ DoChangeByte

SpecChecksum == InitChecksum /\ [][NextChecksum]_vars

(***************************************************************************)
(* Properties of Record::checksum                                          *)
(***************************************************************************)

\* the sum of byte k of every whole dword of the bytes
Column(d, k) ==
    LET col[i \in 0..(Len(d) \div 4)] ==
            IF i = 0 THEN 0 ELSE col[i - 1] + d[4 * (i - 1) + k]
    IN  col[Len(d) \div 4]

\* the sum of the whole little-endian dwords of the bytes is 0 modulo 2^32:
\* its low and its high 16 bits are
DwordSumIsZero(d) ==
    LET low == Column(d, 1) + 256 * Column(d, 2)
        high == Column(d, 3) + 256 * Column(d, 4) + low \div 65536
    IN  low % 65536 = 0 /\ high % 65536 = 0

\* C17: Record::checksum() is None exactly when the cldic flag of the header
\* is unset; when it is set the result is Some(true) exactly when the
\* wrapping 32-bit sum of all the little-endian dwords of the record bytes is
\* 0, and Some(false) otherwise.
C17_Checksum ==
    op \in {"checksum", "rechecked"} =>
        /\ sum = None <=> ~rec.header.version.cldic
        /\ rec.header.version.cldic =>
               sum = Some(DwordSumIsZero(rec.data))

\* the checksum of a record whose dwords add up to a multiple of 2^32 above
\* 0 has been taken
C17_Witness ==
    /\ op = "checksum"
    /\ rec.header.version.cldic
    /\ Len(rec.data) = 16
    /\ SubSeq(rec.data, 9, 12) = <<255, 255, 255, 255>>
    /\ sum = Some(TRUE)

\* the index in the data of the byte that was changed
ChangedAt == CHOOSE i \in 1..Len(rec.data) : rec.data[i] # rec0.data[i]

\* C18, as stated: for any record with cldic set and checksum() ==
\* Some(true), changing any one byte of the record data, other than the byte
\* holding the cldic flag, makes checksum() return Some(false).
C18_DetectsCorruptionAsStated ==
    (op = "rechecked" /\ sum0 = Some(TRUE) /\ ChangedAt # 4) => sum = Some(FALSE)

\* C18: for any record with cldic set and checksum() == Some(true), changing
\* any one byte of the record data that lies in a whole dword, other than
\* the byte holding the cldic flag, makes checksum() return Some(false);
\* changing a byte behind the last whole dword leaves it Some(true).
C18_DetectsCorruption ==
    (op = "rechecked" /\ sum0 = Some(TRUE) /\ ChangedAt # 4) =>
        IF ChangedAt <= 4 * (Len(rec.data) \div 4)
        THEN sum = Some(FALSE)
        ELSE sum = Some(TRUE)

\* the most significant byte of the last dword of a record with a valid
\* checksum has been changed, and the checksum taken again
C18_Witness ==
    /\ op = "rechecked"
    /\ sum0 = Some(TRUE)
    /\ Len(rec.data) = 12
    /\ ChangedAt = 12
    /\ sum = Some(FALSE)


(***************************************************************************)
(* Properties of CrashLog::from_regions and CrashLog::from_slice           *)
(***************************************************************************)

\* the regions from_berr and from_cper hand to from_regions for a blob, or
\* the region from_slice hands to it
InputRegions(b) ==
    IF BerrFromBertFile(b).some
    THEN LET entries == BerrFromBertFile(b).value.entries
         IN  Somes([i \in 1..Len(entries) |->
                       RegionFromCperSection(entries[i].cper_section)])
    ELSE IF CperFromSlice(b).some
    THEN LET sections == CperFromSlice(b).value.sections
         IN  Somes([i \in 1..Len(sections) |->
                       RegionFromCperSection(sections[i].section)])
    ELSE IF RegionFromSlice(b).ok THEN <<RegionFromSlice(b).value>>
    ELSE <<>>

\* the region a record holds: the record is a BOX record, its data goes
\* beyond its header and what follows the header parses as a region
HeldBy(r) ==
    IF r.data[4] % 64 # 61 \/ Len(r.data) < HeaderSize(r.header) THEN <<>>
    ELSE LET inner == RegionFromSlice(
                          SubSeq(r.data, HeaderSize(r.header) + 1, Len(r.data)))
         IN  IF ~inner.ok THEN <<>>
             ELSE IF r.header.header_type.tag = "Type6"
             THEN <<SetSocketAndDieIds(inner.value, r.header.header_type.socket_id,
                                       r.header.header_type.die_id)>>
             ELSE <<inner.value>>

\* a region, then the regions held by its records and theirs, the last
\* record first
RECURSIVE WithNested(_)
WithNested(r) ==
    <<r>> \o Concat([i \in 1..Len(r.records) |->
                        LET held == HeldBy(r.records[Len(r.records) + 1 - i])
                        IN  IF held = <<>> THEN <<>> ELSE WithNested(held[1])])

\* C19: in CrashLog::from_regions a BOX record whose data is shorter than
\* its header or whose payload does not parse as a Region is skipped, every
\* other region (every input region and every nested region that parses) is
\* kept, and the result is Err(InvalidCrashLog) exactly when the resulting
\* set of regions is empty.
C19_BadBoxTolerated ==
    (op = "from_slice" /\ ~(CperFromSlice(blob).some /\ InputRegions(blob) = <<>>)
        /\ (BerrFromBertFile(blob).some \/ CperFromSlice(blob).some
               \/ RegionFromSlice(blob).ok)) =>
        LET kept == Concat([i \in 1..Len(InputRegions(blob)) |->
                               WithNested(InputRegions(blob)[i])])
        IN  IF kept = <<>>
            THEN crashlog = [ok |-> FALSE, err |-> "InvalidCrashLog"]
            ELSE crashlog.ok /\ crashlog.value.regions = kept

\* a region of a BOX record whose payload does not parse and a BOX record
\* that holds a region has been assembled: two regions
C19_Witness ==
    /\ op = "from_slice"
    /\ blob = BerrBlob(<<CrashLogEntry(
                  RecordType1(BOX, <<1, 7, 0, 62, 3, 0, 0, 0>>)
                      \o RecordType1(BOX, McaRecord(1)))>>)
    /\ crashlog.ok
    /\ Len(crashlog.value.regions) = 2


\* the three readings of a blob, each on its own: as a BERT/BERR container,
\* as a CPER record, as one bare region
AsBert(b) ==
    IF BerrFromBertFile(b).some THEN FromBerr(BerrFromBertFile(b).value)
    ELSE [ok |-> FALSE, err |-> "not a BERT"]

AsCper(b) ==
    IF CperFromSlice(b).some THEN FromCper(CperFromSlice(b).value)
    ELSE [ok |-> FALSE, err |-> "not a CPER"]

AsRegion(b) ==
    IF RegionFromSlice(b).ok THEN FromRegions(<<RegionFromSlice(b).value>>)
    ELSE RegionFromSlice(b)

\* C20, as stated: from_slice tries BERT/BERR, then CPER, then a bare
\* Region; the first reading that succeeds determines the result, and the
\* call returns Ok whenever at least one of the three yields a CrashLog.
C20_FirstSuccessWinsAsStated ==
    op = "from_slice" =>
        /\ crashlog.ok <=> (AsBert(blob).ok \/ AsCper(blob).ok \/ AsRegion(blob).ok)
        /\ crashlog.ok =>
               crashlog = IF AsBert(blob).ok THEN AsBert(blob)
                          ELSE IF AsCper(blob).ok THEN AsCper(blob)
                          ELSE AsRegion(blob)

\* C20: from_slice takes the first format the bytes parse as, in the order
\* BERT/BERR container, CPER record, bare Region, and returns what the
\* regions of that container give, Ok or Err: a container that parses but
\* yields no CrashLog is not followed by a try of the next format.
C20_FirstFormatWins ==
    op = "from_slice" =>
        /\ BerrFromBertFile(blob).some => crashlog = AsBert(blob)
        /\ (~BerrFromBertFile(blob).some /\ CperFromSlice(blob).some) =>
               crashlog = AsCper(blob)
        /\ (~BerrFromBertFile(blob).some /\ ~CperFromSlice(blob).some) =>
               crashlog = AsRegion(blob)
        /\ crashlog.ok => (AsBert(blob).ok \/ AsCper(blob).ok \/ AsRegion(blob).ok)

\* the boot error region without entries has been read: an error, though
\* the same bytes read as a region give a CrashLog
C20_Witness ==
    /\ op = "from_slice"
    /\ blob \in SniffBlobs
    /\ crashlog = [ok |-> FALSE, err |-> "InvalidCrashLog"]
    /\ AsRegion(blob).ok
    /\ Len(AsRegion(blob).value.regions[1].records) = 1


(***************************************************************************)
(* Collateral manager (collateral.rs)                                      *)
(***************************************************************************)

All == <<"a", "l", "l">>

\* PVSS::default()
PvssDefault == [product |-> All, variant |-> All, stepping |-> All, security |-> <<"g", "r", "e", "e", "n">>]

MkItemIndex(pvss, path) == [pvss |-> pvss, path |-> path]

\* Map::insert
MapInsert(m, k, v) == [x \in (DOMAIN m) \cup {k} |-> IF x = k THEN v ELSE m[x]]

\* CollateralTree::get: the tree maps an index to the outcome of reading
\* its item; an index the tree does not hold is MissingCollateral
TreeGet(tree, pvss, path) ==
    IF MkItemIndex(pvss, path) \in DOMAIN tree
    THEN tree[MkItemIndex(pvss, path)]
    ELSE Err("MissingCollateral")

\* security_levels of fetch_item
SecurityLevels == <<<<"r", "e", "d">>, <<"w", "h", "i", "t", "e">>, <<"g", "r", "e", "e", "n">>, <<"a", "l", "l">>>>

\* Iterator::position
Position(s, x) ==
    IF \E i \in 1..Len(s) : s[i] = x
    THEN Some(CHOOSE i \in 1..Len(s) : s[i] = x /\ \A j \in 1..(i - 1) : s[j] # x)
    ELSE None

\* the loop of fetch_item over the levels left to try; asked lists the
\* levels the tree has been asked at
RECURSIVE FetchLoop(_, _, _, _)
FetchLoop(cm, index, levels, asked) ==
    IF levels = <<>> THEN [cm |-> cm, res |-> Err("MissingCollateral"), asked |-> asked]
    ELSE LET pvss == [index.pvss EXCEPT !.security = levels[1]]
             next(got) ==
                 IF got.ok
                 THEN [cm |-> [cm EXCEPT !.items = MapInsert(@, index, got.value)],
                       res |-> Ok(<<>>), asked |-> Append(asked, levels[1])]
                 ELSE FetchLoop(cm, index, Tail(levels), Append(asked, levels[1]))
         IN  CHOOSE r \in {next(got) : got \in {TreeGet(cm.tree, pvss, index.path)}} :
                 TRUE

\* fetch_item starting from the most restrictive level whatever was asked
FetchItemFromTop(cm, index) ==
    IF Position(SecurityLevels, index.pvss.security).some
    THEN FetchLoop(cm, index, SecurityLevels, <<>>)
    ELSE [cm |-> cm, res |-> Err("MissingCollateral"), asked |-> <<>>]

\* fetch_item
FetchItem(cm, index) ==
    LET i == Position(SecurityLevels, index.pvss.security)
    IN  IF i.some
        THEN FetchLoop(cm, index,
                       SubSeq(SecurityLevels, i.value, Len(SecurityLevels)), <<>>)
        ELSE [cm |-> cm, res |-> Err("MissingCollateral"), asked |-> <<>>]

\* get_item_with_pvss: the manager it leaves, its Result and the levels
\* the tree was asked at
GetItemWithPvss(cm, pvss, path) ==
    LET index == MkItemIndex(pvss, path)
        get(fetched) ==
            IF ~fetched.res.ok THEN fetched
            ELSE [fetched EXCEPT !.res =
                     IF index \in DOMAIN fetched.cm.items
                     THEN Ok(fetched.cm.items[index])
                     ELSE Err("InternalError")]
    IN  CHOOSE r \in {get(fetched) :
                         fetched \in {IF index \in DOMAIN cm.items
                                      THEN [cm |-> cm, res |-> Ok(<<>>), asked |-> <<>>]
                                      ELSE FetchItem(cm, index)}} : TRUE

\* Version::record_type_as_str
RecordTypeAsStr(version) ==
    CASE version.record_type = 1 -> Ok(<<"P", "M", "C">>)
      [] version.record_type = 2 -> Ok(<<"P", "M", "C", "_", "F", "W", "_", "T", "r", "a", "c", "e">>)
      [] version.record_type = 3 -> Ok(<<"P", "u", "n", "i", "t">>)
      [] version.record_type = PCORE -> Ok(<<"P", "C", "O", "R", "E">>)
      [] version.record_type = ECORE -> Ok(<<"E", "C", "O", "R", "E">>)
      [] version.record_type = 8 -> Ok(<<"U", "N", "C", "O", "R", "E">>)
      [] version.record_type = 17 -> Ok(<<"P", "M", "C", "_", "T", "R", "A", "C", "E">>)
      [] version.record_type = 22 -> Ok(<<"T", "C", "S", "S">>)
      [] version.record_type = 23 -> Ok(<<"P", "M", "C", "_", "R", "S", "T">>)
      [] version.record_type = 25 -> Ok(<<"P", "C", "O", "D", "E">>)
      [] version.record_type = 28 -> Ok(<<"C", "R", "A", "S", "H", "L", "O", "G", "_", "A", "G", "E", "N", "T">>)
      [] version.record_type = BOX -> Ok(<<"B", "O", "X">>)
      [] version.record_type = MCA -> Ok(<<"M", "C", "A">>)
      [] OTHER -> Err("InvalidRecordType")

\* Header::product
Product(h, cm) ==
    IF h.version.product_id \in DOMAIN cm.target_info
    THEN Ok(cm.target_info[h.version.product_id].product)
    ELSE Err("InvalidProductID")

\* Header::variant
Variant(h, cm) ==
    IF h.version.product_id \in DOMAIN cm.target_info
    THEN Some(cm.target_info[h.version.product_id].variant)
    ELSE None

\* Header::die_id
DieIdOf(h) == IF h.header_type.tag = "Type6" THEN Some(h.header_type.die_id) ELSE None

\* Header::die
Die(h, cm) ==
    IF h.version.product_id \notin DOMAIN cm.target_info \/ ~DieIdOf(h).some THEN None
    ELSE LET names == cm.target_info[h.version.product_id].die_id
         IN  IF DieIdOf(h).value \in DOMAIN names
             THEN Some(names[DieIdOf(h).value]) ELSE None

\* str::trim_end_matches(char::is_numeric)
RECURSIVE TrimEndNumeric(_)
TrimEndNumeric(s) ==
    IF s # <<>> /\ IsDigit(s[Len(s)]) THEN TrimEndNumeric(SubSeq(s, 1, Len(s) - 1))
    ELSE s

DecodeDefs == <<"d", "e", "c", "o", "d", "e", "-", "d", "e", "f", "s">>

\* Header::decode_definitions_paths
DecodeDefinitionsPaths(h, cm) ==
    LET record_type == RecordTypeAsStr(h.version)
        revision == FormatNat(h.version.revision)
        die == Die(h, cm)
    IN  IF ~record_type.ok THEN record_type
        ELSE IF die.some
        THEN Ok(<< <<DecodeDefs, record_type.value, TrimEndNumeric(die.value), revision>> >>)
        ELSE Ok(<< <<DecodeDefs, record_type.value, revision>>,
                   <<DecodeDefs, record_type.value, All>> >>)

\* Header::pvss
Pvss(h, cm) ==
    LET product == Product(h, cm)
        variant == Variant(h, cm)
    IN  IF ~product.ok /\ h.version.product_id # 0 THEN product
        ELSE Ok([PvssDefault EXCEPT
                    !.product = IF product.ok THEN product.value ELSE All,
                    !.variant = IF variant.some THEN variant.value ELSE All])

\* get_item_with_header
GetItemWithHeader(cm, h, path) ==
    LET get(pvss) ==
            IF ~pvss.ok THEN [cm |-> cm, res |-> pvss, asked |-> <<>>]
            ELSE GetItemWithPvss(cm, pvss.value, path)
    IN  CHOOSE r \in {get(pvss) : pvss \in {Pvss(h, cm)}} : TRUE


(***************************************************************************)
(* Record::decode (record/decode.rs, record/core.rs)                       *)
(***************************************************************************)

\* Header::extended_record_offset
ExtendedRecordOffset(h) ==
    IF h.size.extended_record_size > 0
    THEN Some(h.size.record_size * RecordSizeGranularity(h))
    ELSE None

\* the loop of decode_with_decode_def over the candidate paths
RECURSIVE DecodeDefLoop(_, _, _, _, _)
DecodeDefLoop(cm, record, paths, decode_def, offset) ==
    IF paths = <<>> THEN [cm |-> cm, res |-> Err("MissingDecodeDefinitions")]
    ELSE LET next(got) ==
                 IF got.res.ok
                 THEN [cm |-> got.cm,
                       res |-> DecodeWithCsv(record.data, record.header,
                                             got.res.value, offset).result]
                 ELSE DecodeDefLoop(got.cm, record, Tail(paths), decode_def, offset)
         IN  CHOOSE r \in {next(got) :
                              got \in {GetItemWithHeader(cm, record.header,
                                           Append(paths[1], decode_def))}} : TRUE

\* Record::decode_with_decode_def: the manager it leaves and its Result
DecodeWithDecodeDef(cm, record, decode_def, offset) ==
    LET decode(paths) ==
            IF ~paths.ok THEN [cm |-> cm, res |-> paths]
            ELSE DecodeDefLoop(cm, record, paths.value, decode_def, offset)
    IN  CHOOSE r \in {decode(paths) :
                         paths \in {DecodeDefinitionsPaths(record.header, cm)}} : TRUE

\* the natural a u64 below 2^31 holds
RECURSIVE ToNat(_)
ToNat(v) ==
    IF v = {} THEN 0
    ELSE LET i == CHOOSE x \in v : TRUE IN Pow2(i) + ToNat(v \ {i})

\* thread.children().next(): the child of the least name
FirstChild(node) ==
    IF DOMAIN node.children = {} THEN NoNode
    ELSE node.children[SortedKeys(DOMAIN node.children)[1]]

CoreIdPath == <<"h", "d", "r", ".", "w", "h", "o", "a", "m", "i", ".", "c", "o", "r", "e", "_", "i", "d">>

\* the first loop of decode_as_core_record: every definition that decodes
\* names the section after its core id and is merged into it
RECURSIVE CoreThreadLoop(_, _, _, _)
CoreThreadLoop(cm, record, defs, section) ==
    IF defs = <<>> THEN [cm |-> cm, section |-> section]
    ELSE LET named(core_id) ==
                 IF core_id.kind.tag = "Field"
                 THEN [section EXCEPT
                          !.name = <<"c", "o", "r", "e">> \o FormatNat(ToNat(core_id.kind.value))]
                 ELSE section
             merged(thread) ==
                 LET child == FirstChild(thread.res.value)
                 IN  CHOOSE s \in {Merge(named(core_id), thread.res.value, <<>>).node :
                                      core_id \in {IF IsSome(child)
                                                   THEN GetByPath(child, CoreIdPath)
                                                   ELSE NoNode}} : TRUE
             next(thread) ==
                 IF thread.res.ok
                 THEN CHOOSE r \in {CoreThreadLoop(thread.cm, record, Tail(defs), s) :
                                       s \in {merged(thread)}} : TRUE
                 ELSE CoreThreadLoop(thread.cm, record, Tail(defs), section)
         IN  CHOOSE r \in {next(thread) :
                              thread \in {DecodeWithDecodeDef(cm, record, defs[1], 0)}} :
                 TRUE

\* the second loop: the first definition that decodes is merged, the others
\* are not tried
RECURSIVE CoreExtendedLoop(_, _, _, _, _)
CoreExtendedLoop(cm, record, defs, offset, section) ==
    IF defs = <<>> THEN [cm |-> cm, section |-> section]
    ELSE LET next(node) ==
                 IF node.res.ok
                 THEN [cm |-> node.cm,
                       section |-> Merge(section, node.res.value, <<>>).node]
                 ELSE CoreExtendedLoop(node.cm, record, Tail(defs), offset, section)
         IN  CHOOSE r \in {next(node) :
                              node \in {DecodeWithDecodeDef(cm, record, defs[1], offset)}} :
                 TRUE

LayoutCsv == <<"l", "a", "y", "o", "u", "t", ".", "c", "s", "v">>
LayoutThreadCsv == <<"l", "a", "y", "o", "u", "t", "_", "t", "h", "r", "e", "a", "d", ".", "c", "s", "v">>
LayoutCoreCsv == <<"l", "a", "y", "o", "u", "t", "_", "c", "o", "r", "e", ".", "c", "s", "v">>
LayoutSqCsv == <<"l", "a", "y", "o", "u", "t", "_", "s", "q", ".", "c", "s", "v">>
LayoutModuleCsv == <<"l", "a", "y", "o", "u", "t", "_", "m", "o", "d", "u", "l", "e", ".", "c", "s", "v">>

\* Record::decode_as_core_record
DecodeAsCoreRecord(cm, record) ==
    LET offset == ExtendedRecordOffset(record.header)
        extended(threads) ==
            IF offset.some
            THEN CoreExtendedLoop(threads.cm, record, <<LayoutSqCsv, LayoutModuleCsv>>,
                                  offset.value, threads.section)
            ELSE threads
        result(sections) ==
            [cm |-> sections.cm, res |-> Ok(NodeAdd(NodeRoot, sections.section))]
    IN  CHOOSE r \in {result(sections) :
                         sections \in {extended(threads) :
                             threads \in {CoreThreadLoop(cm, record,
                                              <<LayoutThreadCsv, LayoutCoreCsv>>,
                                              NodeSection(<<"c", "o", "r", "e">>))}}} : TRUE

\* Record::decode
Decode(cm, record) ==
    IF record.header.version.record_type \in {PCORE, ECORE}
    THEN DecodeAsCoreRecord(cm, record)
    ELSE DecodeWithDecodeDef(cm, record, LayoutCsv, 0)


(***************************************************************************)
(* Looking items up and decoding records                                   *)
(***************************************************************************)

\* Items a collateral tree holds in a run.
MaxItems == 2

Xyz == <<"x", "y", "z">>

\* target_info: product 1 is xyz, whose die 2 is named io0; no other product
\* is known
TargetInfos ==
    (1 :> [product |-> Xyz, variant |-> All, die_id |-> (2 :> <<"i", "o", "0">>)])

\* a decode definition of one field, read from the first byte of the record
FieldLayout(name) == <<"n", "a", "m", "e", ";", "o", "f", "f", "s", "e", "t", ";", "s", "i", "z", "e", "\n">> \o name \o <<";", "0", ";", "8", "\n">>

ThreadLayout == FieldLayout(<<"t", "h", "r", "e", "a", "d", ".", "h", "d", "r", ".", "w", "h", "o", "a", "m", "i", ".", "c", "o", "r", "e", "_", "i", "d">>)

McaRevisionPath == <<DecodeDefs, <<"M", "C", "A">>, <<"8">>, LayoutCsv>>

PvssOf(product, security) ==
    [PvssDefault EXCEPT !.product = product, !.security = security]

\* the items the trees are made of: the definition of MCA revision 8 at
\* every security level (unreadable at white in one of them), and
\* definitions at candidate paths of the other records
TreeEntries ==
    {<<MkItemIndex(PvssOf(All, SecurityLevels[i]), McaRevisionPath),
       Ok(FieldLayout(<<"m", "c", "a", ".">> \o SecurityLevels[i]))>> : i \in 1..4}
    \cup {<<MkItemIndex(PvssOf(All, <<"w", "h", "i", "t", "e">>), McaRevisionPath), Err("InternalError")>>,
          <<MkItemIndex(PvssOf(All, <<"g", "r", "e", "e", "n">>), <<DecodeDefs, <<"M", "C", "A">>, All, LayoutCsv>>),
            Ok(FieldLayout(<<"m", "c", "a", ".", "a", "n", "y">>))>>,
          <<MkItemIndex(PvssOf(Xyz, <<"g", "r", "e", "e", "n">>), McaRevisionPath),
            Ok(FieldLayout(<<"m", "c", "a", ".", "x", "y", "z">>))>>,
          <<MkItemIndex(PvssOf(Xyz, All),
                        <<DecodeDefs, <<"P", "C", "O", "R", "E">>, <<"i", "o">>, <<"8">>, LayoutThreadCsv>>),
            Ok(ThreadLayout)>>,
          <<MkItemIndex(PvssOf(All, <<"g", "r", "e", "e", "n">>),
                        <<DecodeDefs, <<"P", "C", "O", "R", "E">>, <<"8">>, LayoutThreadCsv>>),
            Ok(ThreadLayout)>>,
          <<MkItemIndex(PvssOf(All, <<"g", "r", "e", "e", "n">>),
                        <<DecodeDefs, <<"P", "C", "O", "R", "E">>, All, LayoutCoreCsv>>),
            Ok(FieldLayout(<<"c", "o", "r", "e", ".", "a", "a", "a">>))>>,
          <<MkItemIndex(PvssOf(All, All),
                        <<DecodeDefs, <<"E", "C", "O", "R", "E">>, <<"8">>, LayoutSqCsv>>),
            Ok(FieldLayout(<<"s", "q", ".", "e", "n", "t", "r", "y", "0">>))>>,
          <<MkItemIndex(PvssOf(All, <<"g", "r", "e", "e", "n">>),
                        <<DecodeDefs, <<"E", "C", "O", "R", "E">>, <<"8">>, LayoutModuleCsv>>),
            Ok(FieldLayout(<<"m", "o", "d", "u", "l", "e", ".", "a", "a", "a">>))>>}

\* the trees of at most MaxItems items
Trees ==
    {[k \in {e[1] : e \in S} |-> (CHOOSE e \in S : e[1] = k)[2]] :
        S \in {T \in SUBSET TreeEntries :
                  /\ Cardinality(T) <= MaxItems
                  /\ \A e1, e2 \in T : e1[1] = e2[1] => e1 = e2}}

\* records of core and other types, one of a type without a name, with and
\* without an extended section, of known and unknown products
DecodeRecords ==
    {RegionFromSlice(b).value.records[1] :
        b \in {HeaderBytes(t, rt, pid, sz[1], sz[2], 0) :
                  t \in {1, 6}, rt \in {PCORE, ECORE, MCA, 5}, pid \in {0, 1, 2},
                  sz \in {<<32, 0>>, <<28, 4>>}}}

\* the security levels items are asked at; blue is not a level
RequestLevels == {SecurityLevels[i] : i \in 1..4} \cup {<<"b", "l", "u", "e">>}

InitCollateral ==
    /\ IdleDecode
    /\ IdleBack
    /\ IdleWork
    /\ self = NodeRoot
    /\ other = NodeRoot
    /\ pre = NodeRoot
    /\ arg = NodeRoot
    /\ log = <<>>
    /\ hist = <<>>
    /\ nops = 0
    /\ manager \in {[tree |-> t, items |-> <<>>, target_info |-> TargetInfos] :
                       t \in Trees}
    /\ creq = <<>>
    /\ cres = NotCalled
    /\ queries = <<>>
    /\ drec \in DecodeRecords
    /\ dres = NotCalled
    /\ op = "init"

\* cm.get_item_with_pvss(pvss, path), once and once more
DoGetItemWithPvss ==
    /\ op \in {"init", "get_item"}
    /\ \E security \in RequestLevels :
          \E got \in {GetItemWithPvss(manager, PvssOf(All, security), McaRevisionPath)} :
              /\ creq' = MkItemIndex(PvssOf(All, security), McaRevisionPath)
              /\ manager' = got.cm
              /\ cres' = got.res
              /\ queries' = got.asked
    /\ op' = IF op = "init" THEN "get_item" ELSE "get_item_again"
    /\ UNCHANGED <<drec, dres>>
    /\ UNCHANGED <<data, hdr, bitVars, csvVars, nodeVars, clVars, backVars, workVars, parseVars>>

\* drec.decode(cm)
DoDecode ==
    /\ op = "init"
    /\ \E decoded \in {Decode(manager, drec)} :
          /\ manager' = decoded.cm
          /\ dres' = decoded.res
    /\ op' = "decode"
    /\ UNCHANGED <<creq, cres, queries, drec>>
    /\ UNCHANGED <<data, hdr, bitVars, csvVars, nodeVars, clVars, backVars, workVars, parseVars>>

NextCollateral == DoGetItemWithPvss \/ DoDecode

SpecCollateral == InitCollateral /\ [][NextCollateral]_vars


(***************************************************************************)
(* Properties of decode and of the collateral lookup                       *)
(***************************************************************************)

IsCoreRecord(record) == record.header.version.record_type \in {PCORE, ECORE}

\* the decode definitions Record::decode looks for
CandidateDefs(record) ==
    IF IsCoreRecord(record)
    THEN {LayoutThreadCsv, LayoutCoreCsv}
         \cup (IF ExtendedRecordOffset(record.header).some
               THEN {LayoutSqCsv, LayoutModuleCsv} ELSE {})
    ELSE {LayoutCsv}

\* the collateral paths of the definitions of a record; a record whose type
\* has no name has none
CandidatePaths(record, cm) ==
    LET paths == DecodeDefinitionsPaths(record.header, cm)
    IN  IF ~paths.ok THEN {}
        ELSE {Append(paths.value[i], def) :
                 i \in 1..Len(paths.value), def \in CandidateDefs(record)}

\* an item of the tree is held at one of the candidate paths, at the
\* security level of the record or a less restrictive one
SchemaExists(record, cm) ==
    /\ Pvss(record.header, cm).ok
    /\ \E path \in CandidatePaths(record, cm), level \in {<<"g", "r", "e", "e", "n">>, All} :
          TreeGet(cm.tree, [Pvss(record.header, cm).value EXCEPT !.security = level],
                  path).ok

\* C21: Record::decode returns Err(MissingDecodeDefinitions) for every
\* record that has candidate collateral paths, PCORE and ECORE records
\* included, when no schema item exists at any of them.
C21_MissingDefinitions ==
    (/\ op = "decode"
     /\ CandidatePaths(drec, manager) # {}
     /\ ~SchemaExists(drec, manager))
        => dres = Err("MissingDecodeDefinitions")

\* a core record without any schema was decoded into an empty core section
C21_CoreDecodedWithoutSchema ==
    /\ op = "decode"
    /\ IsCoreRecord(drec)
    /\ ~SchemaExists(drec, manager)
    /\ dres = Ok(NodeAdd(NodeRoot, NodeSection(<<"c", "o", "r", "e">>)))

\* the security levels from the one asked for on, in the fixed order
LevelsFrom(security) ==
    IF Position(SecurityLevels, security).some
    THEN SubSeq(SecurityLevels, Position(SecurityLevels, security).value,
                Len(SecurityLevels))
    ELSE <<>>

\* the tree holds a readable copy of the item asked for at the level
CopyAt(level) ==
    TreeGet(manager.tree, [creq.pvss EXCEPT !.security = level], creq.path)

\* what the request must return and the levels it must ask the tree at
Resolution ==
    LET levels == LevelsFrom(creq.pvss.security)
        hits == {k \in 1..Len(levels) : CopyAt(levels[k]).ok}
    IN  IF hits = {}
        THEN [res |-> Err("MissingCollateral"), asked |-> levels]
        ELSE LET k == CHOOSE x \in hits : \A y \in hits : x <= y
             IN  [res |-> Ok(CopyAt(levels[k]).value), asked |-> SubSeq(levels, 1, k)]

\* C22: an item requested at security level L is looked for at L and then
\* at each less restrictive level in the order red, white, green, all; the
\* content of the first level that resolves is returned, no level more
\* restrictive than L is asked, and MissingCollateral is returned when no
\* level resolves.  A repeated request returns the same, asking the tree
\* again only when the item was not fetched before.
C22_SecurityFallback ==
    /\ op = "get_item" => cres = Resolution.res /\ queries = Resolution.asked
    /\ op = "get_item_again" =>
          /\ cres = Resolution.res
          /\ queries \in {<<>>, Resolution.asked}
    /\ op \in {"get_item", "get_item_again"} =>
          \A q \in 1..Len(queries) :
              Position(SecurityLevels, queries[q]).value
                  >= Position(SecurityLevels, creq.pvss.security).value

\* a request at white met a tree holding only the green and the all copy
C22_Witness ==
    /\ op = "get_item"
    /\ creq.pvss.security = <<"w", "h", "i", "t", "e">>
    /\ ~CopyAt(<<"r", "e", "d">>).ok
    /\ ~CopyAt(<<"w", "h", "i", "t", "e">>).ok
    /\ CopyAt(<<"g", "r", "e", "e", "n">>).ok
    /\ CopyAt(All).ok
    /\ cres = CopyAt(<<"g", "r", "e", "e", "n">>)
    /\ queries = <<<<"w", "h", "i", "t", "e">>, <<"g", "r", "e", "e", "n">>>>


(***************************************************************************)
(* Properties of the regions of a CrashLog                                 *)
(***************************************************************************)

\* the elements of a sequence
Range(s) == {s[i] : i \in 1..Len(s)}

\* the regions discovered inside a record: the region it holds, the regions
\* held by the records of that region, and theirs
Inside(r) == IF HeldBy(r) = <<>> THEN <<>> ELSE WithNested(HeldBy(r)[1])

IsType6Box(r) ==
    r.header.version.record_type = BOX /\ r.header.header_type.tag = "Type6"

ContextOf(r) ==
    [die_id |-> Some(r.header.header_type.die_id),
     socket_id |-> Some(r.header.header_type.socket_id)]

\* C23: when a BOX record has a Type6 header, every record of every region
\* discovered inside it, the region it holds and the regions nested deeper
\* through the BOX records of that region, carries the die_id and the
\* socket_id of that header as its Context.
C23_ContextPropagation ==
    (op = "from_slice" /\ crashlog.ok) =>
        \A g \in Range(crashlog.value.regions) :
            \A k \in 1..Len(g.records) :
                IsType6Box(g.records[k]) =>
                    \A n \in Range(Inside(g.records[k])) :
                        /\ n \in Range(crashlog.value.regions)
                        /\ \A j \in 1..Len(n.records) :
                               n.records[j].context = ContextOf(g.records[k])

\* a BOX record under a Type6 header holds a BOX record under a Type1
\* header, and the record that one holds has no Context
C23_DeeperWithoutContext ==
    /\ op = "from_slice"
    /\ crashlog.ok
    /\ \E g \in Range(crashlog.value.regions) :
          \E k \in 1..Len(g.records) :
              /\ IsType6Box(g.records[k])
              /\ \E n \in Range(Inside(g.records[k])) :
                    /\ n \in Range(crashlog.value.regions)
                    /\ n.records # <<>>
                    /\ n.records[1].context = NoContext
                    /\ n.records[1].header.version.record_type = MCA

\* how many regions a region brings: itself and the regions inside its
\* records
Brings(r) == Len(WithNested(r))

\* the place of input region i in the list of regions
RECURSIVE PlaceOf(_, _)
PlaceOf(inputs, i) ==
    IF i = 1 THEN 1 ELSE PlaceOf(inputs, i - 1) + Brings(inputs[i - 1])

\* C24: in the list of regions CrashLog::from_regions produces, every
\* region comes before the regions nested in its BOX records, every region
\* nested directly or transitively in input region i comes before input
\* region i+1, and the input regions keep their relative order.
C24_DepthFirstOrder ==
    (op = "from_slice" /\ crashlog.ok) =>
        LET regions == crashlog.value.regions
            inputs == InputRegions(blob)
        IN  /\ \A i \in 1..Len(inputs) :
                   /\ PlaceOf(inputs, i) <= Len(regions)
                   /\ regions[PlaceOf(inputs, i)] = inputs[i]
                   /\ \A p \in (PlaceOf(inputs, i) + 1)
                                  ..(PlaceOf(inputs, i) + Brings(inputs[i]) - 1) :
                          /\ p <= Len(regions)
                          /\ regions[p] \in Range(Tail(WithNested(inputs[i])))
            /\ Len(regions) = (IF inputs = <<>> THEN 0
                               ELSE PlaceOf(inputs, Len(inputs))
                                        + Brings(inputs[Len(inputs)]) - 1)
            /\ \A p \in 1..Len(regions) :
                   \A k \in 1..Len(regions[p].records) :
                       HeldBy(regions[p].records[k]) # <<>> =>
                           \E q \in (p + 1)..Len(regions) :
                               regions[q] = HeldBy(regions[p].records[k])[1]

\* two input regions, the first with a BOX record: the region it holds
\* stands between them
C24_Witness ==
    /\ op = "from_slice"
    /\ crashlog.ok
    /\ Len(InputRegions(blob)) = 2
    /\ Len(crashlog.value.regions) = 3
    /\ crashlog.value.regions[1] = InputRegions(blob)[1]
    /\ HeldBy(crashlog.value.regions[1].records[1])
           = <<crashlog.value.regions[2]>>
    /\ crashlog.value.regions[3] = InputRegions(blob)[2]
    /\ crashlog.value.regions[3] # crashlog.value.regions[2]


(***************************************************************************)
(* The loops of Region::from_slice and CrashLog::from_regions, step by     *)
(* step (region.rs, crashlog.rs)                                           *)
(***************************************************************************)

\* BOX records around BOX records in an input, at most.
MaxDepth == 2

\* regions without a BOX record that holds a region: whole records, no
\* record, a termination marker, a record of size 0 alone and after a
\* record, a record cut short, a header of an unknown type, a BOX record
\* shorter than its header
BaseRegions ==
    {McaRecord(1),
     McaRecord(1) \o McaRecord(2),
     <<>>,
     Zeros(4),
     <<1, 1, 0, 62, 0, 0, 0, 0>>,
     McaRecord(1) \o <<1, 1, 0, 62, 0, 0, 0, 0>> \o McaRecord(2),
     SubSeq(McaRecord(1) \o McaRecord(2), 1, 20),
     <<1, 7, 0, 62, 3, 0, 0, 0, 0, 0, 0, 0>>,
     <<1, 6, 0, 61, 2, 0, 0, 0>> \o Zeros(16) \o <<2, 1, 0, 0>>}

\* the regions with BOX records nested to the depth given, under Type1 and
\* Type6 headers, alone and before a record
RECURSIVE Boxed(_)
Boxed(depth) ==
    IF depth = 0 THEN BaseRegions
    ELSE LET inner == Boxed(depth - 1)
         IN  {RecordType1(BOX, r) : r \in inner}
                 \cup {RecordType6(BOX, 1, 2, r) \o McaRecord(3) : r \in inner}

WorkInputs ==
    {b \in UNION {Boxed(depth) : depth \in 0..MaxDepth}
              \cup {RecordType1(BOX, McaRecord(1)) \o RecordType1(BOX, McaRecord(2))} :
        ~BerrFromBertFile(b).some /\ ~CperFromSlice(b).some}

\* CrashLog::from_slice(blob) of a blob that is neither a BERT file nor a
\* CPER record has called Region::from_slice(blob)
InitWork ==
    /\ IdleMerge
    /\ IdleBack
    /\ IdleCollateral
    /\ IdleCsv
    /\ IdleParse
    /\ data = <<>>
    /\ hdr = [tag |-> "none"]
    /\ boff = 0
    /\ bsize = 0
    /\ bres = None
    /\ blob \in WorkInputs
    /\ crashlog = NotParsed
    /\ bytes = <<>>
    /\ reparsed = NotParsed
    /\ wbytes = blob
    /\ wcursor = 0
    /\ wrecords = <<>>
    /\ wqueue = <<>>
    /\ wregions = <<>>
    /\ wregion = [records |-> <<>>]
    /\ wrecord = 0
    /\ op = "scan_input"

Scanning == op \in {"scan_input", "scan_payload"}

\* a record size that never ends the scan
EmptySizeNever(record_size) == FALSE

\* if record_size == 0
EmptySize(record_size) == record_size = 0

\* the header at the cursor
HeaderAtCursor == HeaderFromSlice(Slice(wbytes, wcursor, Len(wbytes)))

\* the scan goes on: there is a header at the cursor and its record has a
\* size
ScanGoesOn ==
    /\ wcursor < Len(wbytes)
    /\ HeaderAtCursor.ok
    /\ HeaderAtCursor.value.some
    /\ ~EmptySize(RecordSizeOf(HeaderAtCursor.value.value))

\* what Region::from_slice returns when the scan ends at the cursor
ScanResult ==
    IF wcursor < Len(wbytes) /\ ~HeaderAtCursor.ok
    THEN OnHeaderError(HeaderAtCursor, wrecords)
    ELSE Ok([records |-> wrecords])

stillVars == <<data, hdr, bitVars, csvVars, nodeVars, cmVars, parseVars, backVars, blob,
               bytes, reparsed>>

\* one iteration of the while loop of Region::from_slice that pushes a
\* record and moves the cursor
ScanRecord ==
    /\ Scanning
    /\ ScanGoesOn
    /\ \E header \in {HeaderAtCursor.value.value} :
          /\ wrecords' = Append(wrecords,
                 [header |-> header,
                  data |-> Slice(wbytes, wcursor,
                                 Min(wcursor + RecordSizeOf(header), Len(wbytes))),
                  context |-> NoContext])
          /\ wcursor' = wcursor + RecordSizeOf(header)
    /\ UNCHANGED <<wbytes, wqueue, wregions, wregion, wrecord, crashlog, op>>
    /\ UNCHANGED stillVars

\* Region::from_slice(blob) returns: its error is the error of
\* CrashLog::from_slice, its region the queue of from_regions
ReturnInputRegion ==
    /\ op = "scan_input"
    /\ ~ScanGoesOn
    /\ IF ScanResult.ok
       THEN wqueue' = <<ScanResult.value>> /\ op' = "while_let"
                /\ UNCHANGED crashlog
       ELSE crashlog' = ScanResult /\ op' = "done" /\ UNCHANGED wqueue
    /\ UNCHANGED <<wbytes, wcursor, wrecords, wregions, wregion, wrecord>>
    /\ UNCHANGED stillVars

\* Region::from_slice(payload) returns: its region goes to the front of the
\* queue, under the ids of a Type6 header, its error is logged
ReturnBoxRegion ==
    /\ op = "scan_payload"
    /\ ~ScanGoesOn
    /\ wqueue' =
          IF ~ScanResult.ok THEN wqueue
          ELSE LET header == wregion.records[wrecord].header
               IN  IF header.header_type.tag = "Type6"
                   THEN <<SetSocketAndDieIds(ScanResult.value,
                                             header.header_type.socket_id,
                                             header.header_type.die_id)>> \o wqueue
                   ELSE <<ScanResult.value>> \o wqueue
    /\ wrecord' = wrecord + 1
    /\ op' = "for_record"
    /\ UNCHANGED <<wbytes, wcursor, wrecords, wregions, wregion, crashlog>>
    /\ UNCHANGED stillVars

\* while let Some(region) = queue.pop_front()
PopFront ==
    /\ op = "while_let"
    /\ wqueue # <<>>
    /\ wregion' = Head(wqueue)
    /\ wqueue' = Tail(wqueue)
    /\ wrecord' = 1
    /\ op' = "for_record"
    /\ UNCHANGED <<wbytes, wcursor, wrecords, wregions, crashlog>>
    /\ UNCHANGED stillVars

\* the queue is empty: from_regions returns
ReturnCrashLog ==
    /\ op = "while_let"
    /\ wqueue = <<>>
    /\ crashlog' = IF wregions = <<>> THEN Err("InvalidCrashLog")
                   ELSE Ok([regions |-> wregions])
    /\ op' = "done"
    /\ UNCHANGED <<wbytes, wcursor, wrecords, wqueue, wregions, wregion, wrecord>>
    /\ UNCHANGED stillVars

\* the payload of the record of the for loop, when it is a BOX record
\* whose data goes beyond its header
BoxPayload ==
    IF wregion.records[wrecord].header.version.record_type # BOX THEN None
    ELSE GetFrom(wregion.records[wrecord].data,
                 HeaderSize(wregion.records[wrecord].header))

\* the for loop passes a record that is no BOX record or has no payload
SkipRecord ==
    /\ op = "for_record"
    /\ wrecord <= Len(wregion.records)
    /\ ~BoxPayload.some
    /\ wrecord' = wrecord + 1
    /\ UNCHANGED <<wbytes, wcursor, wrecords, wqueue, wregions, wregion, crashlog, op>>
    /\ UNCHANGED stillVars

\* the for loop calls Region::from_slice(payload) for a BOX record
OpenBox ==
    /\ op = "for_record"
    /\ wrecord <= Len(wregion.records)
    /\ BoxPayload.some
    /\ wbytes' = BoxPayload.value
    /\ wcursor' = 0
    /\ wrecords' = <<>>
    /\ op' = "scan_payload"
    /\ UNCHANGED <<wqueue, wregions, wregion, wrecord, crashlog>>
    /\ UNCHANGED stillVars

\* the for loop is over: regions.push(region)
PushRegion ==
    /\ op = "for_record"
    /\ wrecord > Len(wregion.records)
    /\ wregions' = Append(wregions, wregion)
    /\ op' = "while_let"
    /\ UNCHANGED <<wbytes, wcursor, wrecords, wqueue, wregion, wrecord, crashlog>>
    /\ UNCHANGED stillVars

NextWork ==
    \/ ScanRecord
    \/ ReturnInputRegion
    \/ ReturnBoxRegion
    \/ PopFront
    \/ ReturnCrashLog
    \/ SkipRecord
    \/ OpenBox
    \/ PushRegion

SpecWork == InitWork /\ [][NextWork]_vars

\* the code runs on: a step that can be taken is taken
SpecWorkFair == SpecWork /\ WF_vars(NextWork)

\* the steps arrive at what from_slice returns
WorkAgrees == op = "done" => crashlog = FromSlice(blob)

\* C25: Region::from_slice and CrashLog::from_regions terminate on every
\* finite input: an iteration of the region scan stops the scan or moves the
\* cursor forward by at least 1 byte (a record of size 0 stops it), every
\* nested region is parsed from fewer bytes than the BOX record it comes
\* from holds, and the queue empties, so that the call returns.
C25_Termination ==
    /\ [][(Scanning /\ op' = op) => wcursor' >= wcursor + 1]_vars
    /\ [](op = "scan_payload" =>
             Len(wbytes) < Len(wregion.records[wrecord].data))
    /\ <>(op = "done" /\ wqueue = <<>>)

\* a region two BOX records deep has been taken apart: three regions
C25_Witness ==
    /\ op = "done"
    /\ crashlog.ok
    /\ Len(crashlog.value.regions) = 3
    /\ wqueue = <<>>
    /\ wcursor >= Len(wbytes)


(***************************************************************************)
(* The bytes of the records of a region                                    *)
(***************************************************************************)

\* where the record k of the records starts in the bytes parsed: the sum of
\* the record sizes of the headers before it
RECURSIVE StartOf(_, _)
StartOf(records, k) ==
    IF k <= 1 THEN 0
    ELSE StartOf(records, k - 1) + RecordSizeOf(records[k - 1].header)

\* the bytes parsed for rcut
CutBytes == SubSeq(rbytes, 1, Len(rbytes) - 4)

\* every record of the result holds the bytes of the input from its start
\* on, as many as its header says or as are left; only the last one may
\* be short; and no record that starts in the input is left out
Clamped(input, res) ==
    res.ok =>
        LET records == res.value.records
            n == Len(records)
        IN  /\ \A k \in 1..n :
                   LET start == StartOf(records, k)
                       size == RecordSizeOf(records[k].header)
                   IN  /\ start < Len(input)
                       /\ size >= 1
                       /\ records[k].data =
                              Slice(input, start,
                                    start + Min(size, Len(input) - start))
                       /\ Len(records[k].data) < size => k = n
            /\ LET end == StartOf(records, n + 1)
               IN  end < Len(input) =>
                       \E parsed \in {HeaderFromSlice(Slice(input, end, Len(input)))} :
                           \/ ~parsed.ok
                           \/ ~parsed.value.some
                           \/ RecordSizeOf(parsed.value.value) = 0

\* C26: every record produced by Region::from_slice holds exactly
\* min(header.record_size(), bytes remaining from the record's start) bytes
\* of the input, starting at the record's start; a record that extends past
\* the end of the buffer is still appended with the clamped range, and only
\* the last record of a region can be shorter than its header.record_size().
C26_TruncatedRecords ==
    /\ op \in {"from_slice", "cut"} => Clamped(rbytes, rres)
    /\ op = "cut" => Clamped(CutBytes, rcut)

\* a region of two records was parsed without its last 4 bytes: the second
\* record is there, 4 bytes shorter than its header says
C26_Witness ==
    /\ op = "cut"
    /\ rcut.ok
    /\ Len(rcut.value.records) = 2
    /\ Len(rcut.value.records[1].data) = RecordSizeOf(rcut.value.records[1].header)
    /\ Len(rcut.value.records[2].data) + 4 = RecordSizeOf(rcut.value.records[2].header)
    /\ rcut.value.records[2].data = Slice(rbytes, 12, Len(rbytes) - 4)


(***************************************************************************)
(* Header::from_slice against Header::header_size                          *)
(***************************************************************************)

\* C27: whenever Header::from_slice(s) returns Ok(Some(h)), the slice s has
\* at least h.header_size() bytes, and for a Type6 header the parsed
\* completion_status array has exactly completion_status_size entries.
C27_ParserAgreesWithSize ==
    (op \in {"from_slice", "header_size", "record_size"}
         /\ hres.ok /\ hres.value.some) =>
        LET h == hres.value.value
        IN  /\ Len(hslice) >= HeaderSize(h)
            /\ op \in {"header_size", "record_size"} => Len(hslice) >= hsize
            /\ h.header_type.tag = "Type6" =>
                   /\ Len(h.header_type.completion_status)
                          = h.header_type.completion_status_size
                   /\ \A d \in 1..h.header_type.completion_status_size :
                          h.header_type.completion_status[d]
                              = Slice(hslice, 24 + 4 * d, 28 + 4 * d)

\* a Type6 header with one completion status dword has been parsed from a
\* slice that ends with that dword, and its size taken
C27_Witness ==
    /\ op = "header_size"
    /\ hres.ok
    /\ hres.value.some
    /\ hres.value.value.header_type.tag = "Type6"
    /\ hres.value.value.header_type.completion_status_size = 1
    /\ Len(hres.value.value.header_type.completion_status) = 1
    /\ Len(hslice) = 32
    /\ hsize = 32


(***************************************************************************)
(* A region written back and parsed again                                  *)
(***************************************************************************)

\* C28: for every byte slice b on which Region::from_slice succeeds with
\* region r, r.to_bytes() is a prefix of b, and
\* Region::from_slice(r.to_bytes()) succeeds with the same sequence of
\* records (same headers, same data bytes) as r.
C28_ReparseStability ==
    /\ op \in {"to_bytes", "from_slice_again"} => IsPrefix(rback, rbytes)
    /\ op = "from_slice_again" =>
           /\ rre.ok
           /\ Len(rre.value.records) = Len(rres.value.records)
           /\ \A k \in 1..Len(rres.value.records) :
                  /\ rre.value.records[k].header = rres.value.records[k].header
                  /\ rre.value.records[k].data = rres.value.records[k].data

\* a Type2 header that gives its record 20 bytes, and then a termination
\* marker, were parsed into a region of one record of 20 bytes; these 20
\* bytes do not parse: the 24 bytes of the header are not there
C28_ShortRecordNotParsedAgain ==
    /\ op = "from_slice_again"
    /\ rbytes = SubSeq(HeaderBytes(2, MCA, 122, 5, 0, 0), 1, 20) \o Zeros(4)
    /\ Len(rres.value.records) = 1
    /\ rback = SubSeq(rbytes, 1, 20)
    /\ rre = Err("InvalidHeader")

(***************************************************************************)
(* Record::payload of the records of a region                              *)
(***************************************************************************)

\* C30: for every record produced by Region::from_slice, Record::payload()
\* is well defined, i.e. header.header_size() <= data.len(), reduced by 4
\* when cldic is set, so taking the payload never indexes outside the
\* record data.
C30_PayloadBounds ==
    op = "payload" =>
        LET record == rres.value.records[pidx]
        IN  /\ pres.ok
            /\ HeaderSize(record.header)
                   <= Len(record.data)
                          - (IF record.header.version.cldic THEN 4 ELSE 0)

\* the payload was taken of a record of 20 bytes with a Type2 header, of 24
\* bytes: the slicing panicked
C30_PayloadPanicked ==
    /\ op = "payload"
    /\ rbytes = SubSeq(HeaderBytes(2, MCA, 122, 5, 0, 0), 1, 20) \o Zeros(4)
    /\ pidx = 1
    /\ Len(rres.value.records[1].data) = 20
    /\ HeaderSize(rres.value.records[1].header) = 24
    /\ ~pres.ok


(***************************************************************************)
(* What Node::merge leaves of the receiver                                 *)
(***************************************************************************)

\* the node and every node under it are in the other tree at the same
\* path with the same name, kind (and value) and description
RECURSIVE KeptIn(_, _)
KeptIn(before, after) ==
    /\ after.name = before.name
    /\ after.kind = before.kind
    /\ after.description = before.description
    /\ \A k \in DOMAIN before.children :
           /\ Has(after, k)
           /\ KeptIn(before.children[k], after.children[k])

\* C29: after self.merge(other), every node that was in self before the
\* call is still at the same path with the same name, kind, value and
\* description; no existing child of self is replaced, renamed or removed,
\* for any two trees.
C29_MergeOnlyAdds == op = "merge" => KeptIn(pre, self)

\* a tree was merged into one that held a Field or Record of the same name
\* as one of its children, and a Section of the same name as another, two
\* levels deep: the incoming nodes were split off and absorbed
C29_Witness ==
    /\ op = "merge"
    /\ Events("split") # {}
    /\ Events("absorb") # {}
    /\ \E k \in DOMAIN pre.children : pre.children[k].children # NoChildren
    /\ \E k \in DOMAIN pre.children : pre.children[k].kind.tag = "Field"
    /\ FieldPaths(self, <<>>) # FieldPaths(pre, <<>>)

====
